---- MODULE Spec2Model ----
(***************************************************************************)
(* A model of the VTR regression/QoR test orchestrator:                    *)
(*   - the job scheduler  run_parallel  (run_vtr_task.py, vtr-task.py),    *)
(*   - the task driver  run_tasks / vtr_command_main  (run_vtr_task.py)    *)
(*     and the regression driver  vtr_command_main  (run_reg_test.py),     *)
(*   - the pass requirements Equal / Range / RangeAbs  (vtr/inspect.py),   *)
(*   - the golden comparison  check_two_files  (run_vtr_task.py).          *)
(* Each part is a state machine of its own with its own specification;     *)
(* the variables of the other parts stay at their idle values.             *)
(***************************************************************************)
EXTENDS Integers, Sequences, FiniteSets, TLC

VARIABLES
    \* ---- scheduler: run_parallel
    impl,           \* "pool" (run_vtr_task.py) | "loop" (vtr-task.py) | "none"
    j,              \* args.j, the worker count
    njobs,          \* len(queued_jobs)
    sched_pc,       \* position of run_parallel
    taskq,          \* the pool's task queue: chunks of queued_procs not yet taken
    worker,         \* pool worker -> [chunk: rest of its chunk, cur: job in the driver or 0]
    pool_exc,       \* a chunk of the starmap ended with an exception
    queue,          \* Manager().Queue(): the shared accumulator, [job, v] entries
    collected,      \* the entries run_parallel has taken with queue.get(), in order
    num_failed,     \* run_parallel's num_failed
    execs,          \* job -> how many times its stage driver was started
    jstate,         \* job -> "queued" | "running" | "returned" | "raised"
    result,         \* job -> what its stage driver returned (0 until it returns)
    lq,             \* vtr-task.py: queued_jobs (reversed: popped from the end)
    running_procs,  \* vtr-task.py: running_procs, <<status, job>> entries
    lcur,           \* vtr-task.py: the job inside run_vtr_flow, or 0
    \* ---- drivers: run_reg_test.vtr_command_main, run_vtr_task.vtr_command_main, run_tasks
    entry,          \* "reg" (run_reg_test.py) | "task" (run_vtr_task.py) | "none"
    mode,           \* run_reg_test.py: "parse" | "check_golden" | "create_golden" |
                    \*   "calc_geomean" | "display_qor" | "run"
    skip_qor,       \* run_reg_test.py: args.skip_qor
    has_vtr,        \* run_reg_test.py: len(vtr_task_list_files) > 0
    reg_j,          \* run_reg_test.py: args.j
    reg_pc,         \* position of run_reg_test.vtr_command_main
    num_func_failures,  \* run_reg_test.vtr_command_main
    num_qor_failures,   \* run_reg_test.vtr_command_main
    exit_code,      \* the exit code of run_reg_test.py once reg_pc = "exited"
    t_pc,           \* position of run_vtr_task.vtr_command_main / run_tasks
    t_args,         \* its args: [j, run, parse, create_golden, check_golden, calc_geomean]
    rt_num_failed,  \* run_tasks' num_failed
    cmd_num_failed, \* run_vtr_task.vtr_command_main's num_failed
    t_error,        \* what was raised in it: "none" | "fatal" | "assertion" | "driver"
    t_done,         \* the steps of run_tasks done in this invocation
    job_failures,   \* failed jobs (and failed ODIN tests) of the whole invocation
    qor_failures,   \* failed requirement evaluations found by golden comparisons
    fatal_caught,   \* run_vtr_task.vtr_command_main caught a fatal error
    \* ---- pass requirements: vtr/inspect.py
    rq_pc,          \* "idle" | "load" | "ready" | "config_error" | "checked"
    rq_kind,        \* "Equal" | "Range" | "RangeAbs"
    rq_params,      \* the parameters of the requirement line, as written
    rq_golden,      \* golden_value: [present, s] (absent, or the raw characters)
    rq_check,       \* check_value
    rq_verdict,     \* "none" | "pass" | "fail" | "error" (InspectError raised)
    \* ---- golden comparison: check_golden_results_for_task / check_two_files
    ck_pc,          \* "idle" | "task" | "load" | "metrics" | "cases" | "warn" | "compare" |
                    \*   "returned" | "raised"
    req_file,       \* config.pass_requirements_file: "none" | "given"
    req_lines,      \* the lines of that file: <<metric, kind, params>> entries
    pass_requirements,  \* the loaded table, in the order of the file
    first_results,  \* the current table: primary key -> row (metric -> raw value)
    second_results, \* the reference (golden) table
    ck_error,       \* the InspectError raised: "none" | "config" | "missing_metric" |
                    \*   "missing_case" | "type_error"
    warned,         \* the current-only keys warned about
    todo,           \* the <<key, metric index>> pairs the comparison loop has yet to visit
    evaluated,      \* the <<key, metric>> pairs whose requirement was evaluated
    evaluations,    \* how many times check_passed was called
    ck_num_qor_failures,    \* check_two_files' num_qor_failures
    \* ---- job expansion: create_jobs
    cj_pc,          \* "idle" | "pair" | "variant" | "done" | "returned"
    configs,        \* the task configurations
    minw_hint_factor,   \* args.minw_hint_factor, a fraction [num, den]
    cj_config,      \* the configuration the outer loop is at
    cj_pair,        \* the (arch, circuit) pair of itertools.product the loop is at
    cj_value,       \* the variant of script_params_list_add the inner loop is at
    cmd,            \* the flags of cmd: [temp_dir, hint, expect_fail], each a list
    jobs,           \* the jobs created so far
    \* ---- stage sequencer: flow.run
    fl_pc,          \* "idle" | "odin" | "abc" | "ace" | "vpr" | "lec" | "cleanup" | "done" | "raised"
    start_stage,    \* position of start_stage in VTR_STAGE
    end_stage,      \* position of end_stage in VTR_STAGE
    power_tech_file,    \* a technology file is supplied
    check_equivalent,
    keep_intermediate_files,
    keep_result_files,
    circuit_ext,    \* circuit_file.suffixes
    next_stage_netlist, \* the current artifact handle
    lec_base_netlist,   \* the reference netlist for the equivalence check, or "None"
    files,          \* the artifacts that exist in temp_dir
    executed,       \* the stages executed so far: [stage, input, output], in order
    fl_error,       \* "none" | "command" | "missing_file" | "not_equivalent"
    fl_unlinked,    \* the artifacts of temp_dir that unlink() has removed
    fl_missing,     \* the artifact whose copy or unlink raised, "None" before
    \* ---- metric parser: parse_vtr_flow
    pv_pc,          \* "idle" | "defaults" | "patterns" | "return" | "done" | "raised"
    parser,         \* "lib" (vtr/parse_vtr_flow.py) | "script" (scripts/parse_vtr_flow.py) | "flow" (flow.py)
    parse_patterns, \* the loaded patterns, in declaration order
    extra_params,   \* the caller's extra parameters: <<key, value>> pairs, in the order given
    file_lines,     \* the lines of the file that the one-file glob matches
    metrics,        \* the metrics dictionary: pattern name -> value
    pv_done,        \* the number of patterns processed
    out_header,     \* the header line of the record, field by field
    out_data,       \* the data line of the record, field by field
    pv_error,       \* "none" | "InspectError" | "IndexError"
    \* ---- trend history: calc_geomean
    out_file_exists,    \* qor_geomean.txt exists
    out_file,       \* its lines: [fields, ended, call], the last one may lack its newline
    gm_calls,       \* the number of calc_geomean invocations so far
    gm_last,        \* how the latest invocation ended: "none" | "returned" | "raised"
    gm_summary,     \* the summary the latest invocation read
    gm_cells,       \* the column cells the latest invocation wrote
    \* ---- configuration files of an invocation
    config_fault,   \* the file with a configuration error: "none" | "task_config" |
                    \* "parse_patterns" | "pass_requirements"
    \* ---- task result tables: run_parallel, then parse_task and parse_files
    tb_pc,          \* "idle" | "run" | "done"
    tb_config,      \* the configuration of the task
    tb_jobs,        \* its jobs, in creation order
    tb_pending,     \* the jobs that have not completed yet
    tb_dirs,        \* per directory: the flow output, parse_results.txt, qor_results.txt
    tb_table,       \* the task's parse_results.txt, row by row
    tb_qor_table    \* the task's qor_results.txt, row by row

schedVars == <<impl, j, njobs, sched_pc, taskq, worker, pool_exc, queue, collected,
               num_failed, execs, jstate, result, lq, running_procs, lcur>>

drvVars == <<entry, mode, skip_qor, has_vtr, reg_j, reg_pc, num_func_failures,
             num_qor_failures, exit_code, t_pc, t_args, rt_num_failed, cmd_num_failed,
             t_error, t_done, job_failures, qor_failures, fatal_caught>>

reqVars == <<rq_pc, rq_kind, rq_params, rq_golden, rq_check, rq_verdict>>

chkVars == <<ck_pc, req_file, req_lines, pass_requirements, first_results, second_results,
             ck_error, warned, todo, evaluated, evaluations,
             ck_num_qor_failures>>

jobVars == <<cj_pc, configs, minw_hint_factor, cj_config, cj_pair, cj_value, cmd, jobs>>

flowVars == <<fl_pc, start_stage, end_stage, power_tech_file, check_equivalent,
              keep_intermediate_files, keep_result_files, circuit_ext, next_stage_netlist,
              lec_base_netlist, files, executed, fl_error, fl_unlinked, fl_missing>>

parseVars == <<pv_pc, parser, parse_patterns, extra_params, file_lines, metrics,
               pv_done, out_header, out_data, pv_error>>

gmVars == <<out_file_exists, out_file, gm_calls, gm_last, gm_summary, gm_cells>>

cfgVars == <<config_fault>>

tblVars == <<tb_pc, tb_config, tb_jobs, tb_pending, tb_dirs, tb_table, tb_qor_table>>

vars == <<schedVars, drvVars, reqVars, chkVars, jobVars, flowVars, parseVars, gmVars, cfgVars, tblVars>>

\* what the steps of one part leave alone: the variables of the other parts
SchedFrame == UNCHANGED <<drvVars, reqVars, chkVars, jobVars, flowVars, parseVars, gmVars, cfgVars, tblVars>>
DrvFrame == UNCHANGED <<schedVars, reqVars, chkVars, jobVars, flowVars, parseVars, gmVars, cfgVars, tblVars>>
ReqFrame == UNCHANGED <<schedVars, drvVars, chkVars, jobVars, flowVars, parseVars, gmVars, cfgVars, tblVars>>
ChkFrame == UNCHANGED <<schedVars, drvVars, reqVars, jobVars, flowVars, parseVars, gmVars, cfgVars, tblVars>>
JobFrame == UNCHANGED <<schedVars, drvVars, reqVars, chkVars, flowVars, parseVars, gmVars, cfgVars, tblVars>>
FlowFrame == UNCHANGED <<schedVars, drvVars, reqVars, chkVars, jobVars, parseVars, gmVars, cfgVars, tblVars>>
ParseFrame == UNCHANGED <<schedVars, drvVars, reqVars, chkVars, jobVars, flowVars, gmVars, cfgVars, tblVars>>
GmFrame == UNCHANGED <<schedVars, drvVars, reqVars, chkVars, jobVars, flowVars, parseVars, cfgVars, tblVars>>
TblFrame == UNCHANGED <<schedVars, drvVars, reqVars, chkVars, jobVars, flowVars, parseVars, gmVars, cfgVars>>

-----------------------------------------------------------------------------
(* Bounds of the model *)

MaxJobs == 5
MaxWorkers == 2
MaxJobFailures == 2
MaxQorFailures == 2

-----------------------------------------------------------------------------
(* Helpers *)

Reversed(s) == [i \in 1..Len(s) |-> s[Len(s) + 1 - i]]

Min2(a, b) == IF a <= b THEN a ELSE b

-----------------------------------------------------------------------------
(* The scheduler: run_parallel and run_vtr_flow_process *)

\* What the stage driver run_vtr_flow(...) can return: 0 (success) or a nonzero status.
DriverResults == {0, 1, 2}

\* queued_procs: one (queue, run_dirs, job) entry per job of reversed(queued_jobs)
QueuedProcs(n) == Reversed([i \in 1..n |-> i])

\* Pool(processes=args.j): the number of worker processes
PoolSizeOneMore(jj) == jj + 1
PoolSize(jj) == jj

\* Pool._map_async: chunksize, extra = divmod(len(iterable), len(pool) * 4)
Chunksize(n, p) ==
    IF n = 0 THEN 0
    ELSE IF n % (p * 4) # 0 THEN (n \div (p * 4)) + 1 ELSE n \div (p * 4)

\* Pool._get_tasks: the iterable cut into consecutive chunks of size c
RECURSIVE GetTasks(_, _)
GetTasks(s, c) ==
    IF s = <<>> THEN <<>>
    ELSE LET k == Min2(c, Len(s))
         IN  <<SubSeq(s, 1, k)>> \o GetTasks(SubSeq(s, k + 1, Len(s)), c)

\* run_vtr_flow_process: "if out: queue.put(1) else: queue.put(0)"
AccumulatedRaw(out) == out
Accumulated(out) == IF out # 0 THEN 1 ELSE 0

\* vtr-task.py: "while len(queued_jobs) > 0 and len(running_procs) < args.j"
CanLaunch == lq # <<>> /\ Len(running_procs) < j

Idle == [chunk |-> <<>>, cur |-> 0]

\* an absent value (None: an empty cell of a result table)
None == [present |-> FALSE, s |-> <<>>]

ReqIdle ==
    /\ rq_pc = "idle" /\ rq_kind = "none" /\ rq_params = <<>>
    /\ rq_golden = None /\ rq_check = None /\ rq_verdict = "none"

\* a ParseResults without rows
NoRows == [key \in {} |-> None]

ChkIdle ==
    /\ ck_pc = "idle" /\ req_file = "none" /\ req_lines = <<>> /\ pass_requirements = <<>>
    /\ first_results = NoRows /\ second_results = NoRows
    /\ ck_error = "none" /\ warned = {} /\ todo = <<>> /\ evaluated = {} /\ evaluations = 0
    /\ ck_num_qor_failures = 0

\* cmd without any of the flags followed here
NoFlags == [temp_dir |-> <<>>, hint |-> <<>>, expect_fail |-> <<>>]

JobIdle ==
    /\ cj_pc = "idle" /\ configs = <<>> /\ minw_hint_factor = [num |-> 1, den |-> 1]
    /\ cj_config = 0 /\ cj_pair = 0 /\ cj_value = 0 /\ cmd = NoFlags /\ jobs = <<>>

CfgIdle == config_fault = "none"

TblIdle ==
    /\ tb_pc = "idle" /\ tb_config = NoRows /\ tb_jobs = <<>> /\ tb_pending = {}
    /\ tb_dirs = NoRows /\ tb_table = <<>> /\ tb_qor_table = <<>>

NoSummary == [params |-> <<>>, lines |-> <<>>]

GmIdle ==
    /\ out_file_exists = FALSE /\ out_file = <<>> /\ gm_calls = 0
    /\ gm_last = "idle" /\ gm_summary = NoSummary /\ gm_cells = <<>>

ParseIdle ==
    /\ pv_pc = "idle" /\ parser = "none" /\ parse_patterns = <<>> /\ extra_params = <<>>
    /\ file_lines = <<>> /\ metrics = NoRows /\ pv_done = 0
    /\ out_header = <<>> /\ out_data = <<>> /\ pv_error = "none"

FlowIdle ==
    /\ fl_pc = "idle" /\ start_stage = 1 /\ end_stage = 1
    /\ power_tech_file = FALSE /\ check_equivalent = FALSE
    /\ keep_intermediate_files = TRUE /\ keep_result_files = TRUE
    /\ circuit_ext = <<>> /\ next_stage_netlist = "None" /\ lec_base_netlist = "None"
    /\ files = {} /\ executed = <<>> /\ fl_error = "none"
    /\ fl_unlinked = {} /\ fl_missing = "None"

NoArgs == [j |-> 0, run |-> FALSE, parse |-> FALSE, create_golden |-> FALSE,
           check_golden |-> FALSE, calc_geomean |-> FALSE]

DrvIdle ==
    /\ entry = "none" /\ mode = "none" /\ skip_qor = FALSE /\ has_vtr = FALSE
    /\ reg_j = 0 /\ reg_pc = "idle"
    /\ num_func_failures = 0 /\ num_qor_failures = 0 /\ exit_code = 0
    /\ t_pc = "idle" /\ t_args = NoArgs /\ rt_num_failed = 0 /\ cmd_num_failed = 0
    /\ t_error = "none" /\ t_done = {} /\ job_failures = 0 /\ qor_failures = 0
    /\ fatal_caught = FALSE

SchedIdle ==
    /\ impl = "none" /\ j = 0 /\ njobs = 0 /\ sched_pc = "idle"
    /\ taskq = <<>> /\ worker = <<>> /\ pool_exc = FALSE /\ queue = <<>>
    /\ collected = <<>> /\ num_failed = 0 /\ execs = <<>> /\ jstate = <<>> /\ result = <<>>
    /\ lq = <<>> /\ running_procs = <<>> /\ lcur = 0

\* run_parallel is entered with queued_jobs and args.j > 0 (run_tasks asserts it)
SchedInit ==
    /\ impl \in {"pool", "loop"}
    /\ j \in 1..MaxWorkers
    /\ njobs \in 0..MaxJobs
    /\ sched_pc = "start"
    /\ taskq = <<>> /\ worker = <<>> /\ pool_exc = FALSE /\ queue = <<>>
    /\ collected = <<>> /\ num_failed = 0
    /\ execs = [i \in 1..njobs |-> 0]
    /\ jstate = [i \in 1..njobs |-> "queued"]
    /\ result = [i \in 1..njobs |-> 0]
    /\ lq = <<>> /\ running_procs = <<>> /\ lcur = 0
    /\ DrvIdle
    /\ ReqIdle
    /\ ChkIdle /\ JobIdle /\ FlowIdle /\ ParseIdle /\ GmIdle /\ CfgIdle /\ TblIdle

\* run_vtr_task.py: the pool is created and starmap hands out the chunks
PoolStart ==
    /\ sched_pc = "start" /\ impl = "pool"
    /\ worker' = [w \in 1..PoolSize(j) |-> Idle]
    /\ taskq' = GetTasks(QueuedProcs(njobs), Chunksize(njobs, PoolSize(j)))
    /\ sched_pc' = "starmap"
    /\ SchedFrame
    /\ UNCHANGED <<impl, j, njobs, pool_exc, queue, collected, num_failed, execs, jstate,
                   result, lq, running_procs, lcur>>

\* an idle pool worker takes the next chunk
PoolTake(w) ==
    /\ sched_pc = "starmap"
    /\ worker[w] = Idle
    /\ taskq # <<>>
    /\ worker' = [worker EXCEPT ![w].chunk = Head(taskq)]
    /\ taskq' = Tail(taskq)
    /\ SchedFrame
    /\ UNCHANGED <<impl, j, njobs, sched_pc, pool_exc, queue, collected, num_failed,
                   execs, jstate, result, lq, running_procs, lcur>>

\* run_vtr_flow_process up to the call of run_vtr_flow: the stage driver starts
PoolRunJob(w) ==
    /\ sched_pc = "starmap"
    /\ worker[w].cur = 0
    /\ worker[w].chunk # <<>>
    /\ LET job == Head(worker[w].chunk)
       IN  /\ worker' = [worker EXCEPT ![w].cur = job]
           /\ execs' = [execs EXCEPT ![job] = @ + 1]
           /\ jstate' = [jstate EXCEPT ![job] = "running"]
    /\ SchedFrame
    /\ UNCHANGED <<impl, j, njobs, sched_pc, taskq, pool_exc, queue, collected,
                   num_failed, result, lq, running_procs, lcur>>

\* run_vtr_flow returns out; the process puts 1 or 0 on the queue
PoolJobReturn(w, out) ==
    /\ sched_pc = "starmap"
    /\ worker[w].cur # 0
    /\ LET job == worker[w].cur
       IN  /\ result' = [result EXCEPT ![job] = out]
           /\ jstate' = [jstate EXCEPT ![job] = "returned"]
           /\ queue' = Append(queue, [job |-> job, v |-> Accumulated(out)])
           /\ worker' = [worker EXCEPT ![w] = [chunk |-> Tail(@.chunk), cur |-> 0]]
    /\ SchedFrame
    /\ UNCHANGED <<impl, j, njobs, sched_pc, taskq, pool_exc, collected, num_failed,
                   execs, lq, running_procs, lcur>>

\* run_vtr_flow raises: nothing is put on the queue, the exception ends the
\* worker's chunk (starmapstar stops) and is kept for starmap to re-raise
PoolJobRaise(w) ==
    /\ sched_pc = "starmap"
    /\ worker[w].cur # 0
    /\ jstate' = [jstate EXCEPT ![worker[w].cur] = "raised"]
    /\ worker' = [worker EXCEPT ![w] = Idle]
    /\ pool_exc' = TRUE
    /\ SchedFrame
    /\ UNCHANGED <<impl, j, njobs, sched_pc, taskq, queue, collected, num_failed,
                   execs, result, lq, running_procs, lcur>>

\* starmap returns once every chunk has ended, or re-raises the kept exception
PoolJoin ==
    /\ sched_pc = "starmap"
    /\ taskq = <<>>
    /\ \A w \in DOMAIN worker : worker[w] = Idle
    /\ sched_pc' = IF pool_exc THEN "raised" ELSE "collect"
    /\ SchedFrame
    /\ UNCHANGED <<impl, j, njobs, taskq, worker, pool_exc, queue, collected,
                   num_failed, execs, jstate, result, lq, running_procs, lcur>>

\* "for proc in queued_procs: num_failed += queue.get()"
PoolCollect ==
    /\ sched_pc = "collect"
    /\ Len(collected) < njobs
    /\ queue # <<>>
    /\ num_failed' = num_failed + Head(queue).v
    /\ queue' = Tail(queue)
    /\ collected' = Append(collected, Head(queue))
    /\ SchedFrame
    /\ UNCHANGED <<impl, j, njobs, sched_pc, taskq, worker, pool_exc, execs, jstate, result,
                   lq, running_procs, lcur>>

PoolReturn ==
    /\ sched_pc = "collect"
    /\ Len(collected) = njobs
    /\ sched_pc' = "returned"
    /\ SchedFrame
    /\ UNCHANGED <<impl, j, njobs, taskq, worker, pool_exc, queue, collected,
                   num_failed, execs, jstate, result, lq, running_procs, lcur>>

\* vtr-task.py: queued_jobs = list(reversed(queued_jobs))
LoopStart ==
    /\ sched_pc = "start" /\ impl = "loop"
    /\ lq' = QueuedProcs(njobs)
    /\ sched_pc' = "loop"
    /\ SchedFrame
    /\ UNCHANGED <<impl, j, njobs, taskq, worker, pool_exc, queue, collected,
                   num_failed, execs, jstate, result, running_procs, lcur>>

\* vtr-task.py: a job is popped and run_vtr_flow is called for it
LoopLaunch ==
    /\ sched_pc = "loop"
    /\ lcur = 0
    /\ CanLaunch
    /\ lcur' = lq[Len(lq)]
    /\ lq' = SubSeq(lq, 1, Len(lq) - 1)
    /\ execs' = [execs EXCEPT ![lq[Len(lq)]] = @ + 1]
    /\ jstate' = [jstate EXCEPT ![lq[Len(lq)]] = "running"]
    /\ SchedFrame
    /\ UNCHANGED <<impl, j, njobs, sched_pc, taskq, worker, pool_exc, queue, collected,
                   num_failed, result, running_procs>>

\* vtr-task.py: run_vtr_flow returns its status, kept in running_procs
LoopJobReturn(out) ==
    /\ sched_pc = "loop"
    /\ lcur # 0
    /\ result' = [result EXCEPT ![lcur] = out]
    /\ jstate' = [jstate EXCEPT ![lcur] = "returned"]
    /\ running_procs' = Append(running_procs, <<out, lcur>>)
    /\ lcur' = 0
    /\ SchedFrame
    /\ UNCHANGED <<impl, j, njobs, sched_pc, taskq, worker, pool_exc, queue, collected,
                   num_failed, execs, lq>>

\* vtr-task.py: run_vtr_flow raises; only KeyboardInterrupt is handled
LoopJobRaise ==
    /\ sched_pc = "loop"
    /\ lcur # 0
    /\ jstate' = [jstate EXCEPT ![lcur] = "raised"]
    /\ lcur' = 0
    /\ sched_pc' = "raised"
    /\ SchedFrame
    /\ UNCHANGED <<impl, j, njobs, taskq, worker, pool_exc, queue, collected,
                   num_failed, execs, result, lq, running_procs>>

\* vtr-task.py: the polling loop; every entry has a status, failures are counted
\* and the entries whose status is in procs_to_del are removed
LoopPoll ==
    /\ sched_pc = "loop"
    /\ lcur = 0
    /\ ~CanLaunch
    /\ running_procs # <<>>
    /\ LET procs_to_del == {running_procs[i][1] : i \in 1..Len(running_procs)}
       IN  /\ num_failed' = num_failed +
                  Cardinality({i \in 1..Len(running_procs) : running_procs[i][1] # 0})
           /\ running_procs' = SelectSeq(running_procs, LAMBDA info : info[1] \notin procs_to_del)
    /\ SchedFrame
    /\ UNCHANGED <<impl, j, njobs, sched_pc, taskq, worker, pool_exc, queue, collected,
                   execs, jstate, result, lq, lcur>>

LoopReturn ==
    /\ sched_pc = "loop"
    /\ lcur = 0
    /\ lq = <<>>
    /\ running_procs = <<>>
    /\ sched_pc' = "returned"
    /\ SchedFrame
    /\ UNCHANGED <<impl, j, njobs, taskq, worker, pool_exc, queue, collected,
                   num_failed, execs, jstate, result, lq, running_procs, lcur>>

SchedNext ==
    \/ PoolStart
    \/ \E w \in DOMAIN worker : PoolTake(w)
    \/ \E w \in DOMAIN worker : PoolRunJob(w)
    \/ \E w \in DOMAIN worker : \E out \in DriverResults : PoolJobReturn(w, out)
    \/ \E w \in DOMAIN worker : PoolJobRaise(w)
    \/ PoolJoin
    \/ PoolCollect
    \/ PoolReturn
    \/ LoopStart
    \/ LoopLaunch
    \/ \E out \in DriverResults : LoopJobReturn(out)
    \/ LoopJobRaise
    \/ LoopPoll
    \/ LoopReturn

SpecSched == SchedInit /\ [][SchedNext]_vars

\* the jobs whose stage driver is running
RunningJobs == {i \in 1..njobs : jstate[i] = "running"}

\* the jobs whose stage driver returned a nonzero result
FailedJobs == {i \in 1..njobs : jstate[i] = "returned" /\ result[i] # 0}

\* the accumulator entries a job has put, taken by run_parallel or not yet
EntriesOf(i) ==
    {k \in 1..Len(queue) : queue[k].job = i} \cup
    {Len(queue) + k : k \in {m \in 1..Len(collected) : collected[m].job = i}}

-----------------------------------------------------------------------------
(* Claims about the scheduler, checked under SpecSched *)

\* C1: at any moment at most N = args.j jobs have their stage driver running
\* (and vtr-task.py never holds more than N entries in running_procs).
C1_AtMostNRunning ==
    sched_pc # "idle" =>
        /\ Cardinality(RunningJobs) <= j
        /\ Len(running_procs) <= j

\* two workers are busy at once while another job still waits in the task queue
C1_Witness ==
    /\ impl = "pool" /\ j = 2 /\ njobs >= 3
    /\ Cardinality(RunningJobs) = 2
    /\ taskq # <<>>

\* C2: the value run_parallel returns is the number of jobs whose stage driver
\* returned a nonzero result; in the pool version every job has put exactly one
\* entry, 0 or 1, on the queue and every entry was taken exactly once.
C2_ReturnCountsFailedJobs ==
    sched_pc = "returned" =>
        /\ num_failed = Cardinality(FailedJobs)
        /\ impl = "pool" =>
              /\ queue = <<>>
              /\ \A i \in 1..njobs :
                    /\ Cardinality(EntriesOf(i)) = 1
                    /\ \A k \in 1..Len(collected) :
                          collected[k].job = i =>
                              collected[k].v = (IF result[i] # 0 THEN 1 ELSE 0)

\* run_parallel has returned after jobs that failed with status 2 and jobs that passed
C2_Witness ==
    /\ sched_pc = "returned" /\ impl = "pool" /\ j = 2 /\ njobs >= 3
    /\ \E a, b \in 1..njobs : result[a] = 2 /\ result[b] = 0
    /\ num_failed >= 2

\* C3 (as claimed): run_parallel never raises because of a job, and when it has
\* ended every submitted job was executed exactly once and ran to completion.
C3_AsClaimed ==
    impl = "pool" =>
        /\ sched_pc # "raised"
        /\ sched_pc = "returned" =>
              \A i \in 1..njobs : execs[i] = 1 /\ jstate[i] = "returned"

-----------------------------------------------------------------------------
(* The drivers: run_vtr_task.vtr_command_main / run_tasks, and                *)
(* run_reg_test.vtr_command_main, which calls the former once or twice        *)

\* run_reg_test.py -j / run_vtr_task.py -j: any integer is accepted (type=int)
JValues == -1..MaxWorkers

Modes == {"parse", "check_golden", "create_golden", "calc_geomean", "display_qor", "run"}

\* run_tasks performs these steps in this order, each if its flag is set
Phases == <<"run", "parse", "create_golden", "check_golden", "calc_geomean">>

\* run_vtr_task.vtr_command_main: args.run is cleared by -parse, -create_golden,
\* -check_golden or -calc_geomean; a run always parses
TaskArgs(jj, parse, create, check, calc) ==
    LET run == ~(parse \/ create \/ check \/ calc)
    IN  [j |-> jj, run |-> run, parse |-> (parse \/ run), create_golden |-> create,
         check_golden |-> check, calc_geomean |-> calc]

\* run_reg_test.parse_single_test(check=True, calculate=True, create): the command
\* has -check_golden, -calc_geomean and, with create, -create_golden; -j is not passed
ParseSingleTestArgs(create) == TaskArgs(1, FALSE, create, TRUE, TRUE)

\* run_reg_test.run_tasks: the command has -j args.j and no mode flag
RunTasksArgs(jj) == TaskArgs(jj, FALSE, FALSE, FALSE, FALSE)

\* run_tasks: "assert args.j > 0"
WorkerCountNonNegative(jj) == jj >= 0
WorkerCountOk(jj) == jj > 0

\* the step of run_tasks that follows step k (0: create_jobs)
After(k, args) ==
    LET later == {i \in (k + 1)..Len(Phases) : args[Phases[i]]}
    IN  IF later = {} THEN "return"
        ELSE Phases[CHOOSE i \in later : \A m \in later : i <= m]

\* sys.exit(n): the exit status the process ends with
ExitStatus(n) == n % 256

\* run_vtr_task.vtr_command_main(arg_list) is called: num_failed = -1
Call(args) ==
    /\ t_pc' = "load"
    /\ t_args' = args
    /\ rt_num_failed' = 0
    /\ cmd_num_failed' = -1
    /\ t_error' = "none"
    /\ t_done' = {}

TaskUnchanged == UNCHANGED <<t_pc, t_args, rt_num_failed, cmd_num_failed, t_error, t_done>>

RegUnchanged == UNCHANGED <<entry, mode, skip_qor, has_vtr, reg_j, reg_pc,
                            num_func_failures, num_qor_failures, exit_code>>

\* a step of run_tasks raises a fatal error (CommandError, InspectError, VtrError)
Fatal ==
    /\ t_error' = "fatal"
    /\ t_pc' = "caught"

\* run_reg_test.py is started in one of its modes
RegInit ==
    /\ entry = "reg"
    /\ mode \in Modes
    /\ skip_qor \in BOOLEAN
    /\ has_vtr \in BOOLEAN
    /\ reg_j \in JValues
    /\ reg_pc = "start"
    /\ num_func_failures = 0 /\ num_qor_failures = 0 /\ exit_code = 0
    /\ t_pc = "idle" /\ t_args = NoArgs /\ rt_num_failed = 0 /\ cmd_num_failed = 0
    /\ t_error = "none" /\ t_done = {} /\ job_failures = 0 /\ qor_failures = 0
    /\ fatal_caught = FALSE

\* run_vtr_task.py is started with any combination of its flags
TaskInit ==
    /\ entry = "task"
    /\ mode = "none" /\ skip_qor = FALSE /\ has_vtr = FALSE /\ reg_j = 0
    /\ reg_pc = "idle"
    /\ num_func_failures = 0 /\ num_qor_failures = 0 /\ exit_code = 0
    /\ t_pc = "load"
    /\ \E jj \in JValues : \E parse, create, check, calc \in BOOLEAN :
           t_args = TaskArgs(jj, parse, create, check, calc)
    /\ rt_num_failed = 0 /\ cmd_num_failed = -1
    /\ t_error = "none" /\ t_done = {} /\ job_failures = 0 /\ qor_failures = 0
    /\ fatal_caught = FALSE

\* the configuration file of the invocation that holds an error, if any
ConfigFaults == {"none", "task_config", "parse_patterns", "pass_requirements"}

DrvInit ==
    /\ RegInit \/ TaskInit
    /\ config_fault \in ConfigFaults
    /\ SchedIdle /\ ReqIdle /\ ChkIdle /\ JobIdle /\ FlowIdle /\ ParseIdle /\ GmIdle /\ TblIdle

\* vtr_command_main: the task lists and configurations are loaded
TkLoad(ok) ==
    /\ DrvFrame
    /\ t_pc = "load"
    /\ config_fault = "task_config" => ~ok
    /\ IF ok THEN t_pc' = "assert" /\ UNCHANGED t_error ELSE Fatal
    /\ UNCHANGED <<t_args, rt_num_failed, cmd_num_failed, t_done, job_failures,
                   qor_failures, fatal_caught>>
    /\ RegUnchanged

\* run_tasks: assert args.j > 0; an AssertionError is not caught by vtr_command_main
TkAssert ==
    /\ DrvFrame
    /\ t_pc = "assert"
    /\ IF WorkerCountOk(t_args.j)
       THEN t_pc' = "create_jobs" /\ UNCHANGED t_error
       ELSE t_pc' = "raised" /\ t_error' = "assertion"
    /\ UNCHANGED <<t_args, rt_num_failed, cmd_num_failed, t_done, job_failures,
                   qor_failures, fatal_caught>>
    /\ RegUnchanged

\* run_tasks: jobs = create_jobs(args, configs)
TkCreateJobs(ok) ==
    /\ DrvFrame
    /\ t_pc = "create_jobs"
    /\ IF ok
       THEN /\ t_done' = t_done \cup {"create_jobs"}
            /\ t_pc' = After(0, t_args)
            /\ UNCHANGED t_error
       ELSE Fatal /\ UNCHANGED t_done
    /\ UNCHANGED <<t_args, rt_num_failed, cmd_num_failed, job_failures, qor_failures,
                   fatal_caught>>
    /\ RegUnchanged

\* run_tasks: num_failed = run_parallel(args, configs, jobs), nf jobs failing
TkRunParallel(nf) ==
    /\ DrvFrame
    /\ t_pc = "run"
    /\ rt_num_failed' = nf
    /\ job_failures' = job_failures + nf
    /\ t_done' = t_done \cup {"run"}
    /\ t_pc' = After(1, t_args)
    /\ UNCHANGED <<t_args, cmd_num_failed, t_error, qor_failures, fatal_caught>>
    /\ RegUnchanged

\* run_tasks: run_parallel raises what a stage driver raised (not a VtrError)
TkRunParallelRaise ==
    /\ DrvFrame
    /\ t_pc = "run"
    /\ t_done' = t_done \cup {"run"}
    /\ t_error' = "driver"
    /\ t_pc' = "raised"
    /\ UNCHANGED <<t_args, rt_num_failed, cmd_num_failed, job_failures, qor_failures,
                   fatal_caught>>
    /\ RegUnchanged

\* run_tasks: parse_tasks(args, configs, jobs)
TkParse(ok) ==
    /\ DrvFrame
    /\ t_pc = "parse"
    /\ config_fault = "parse_patterns" => ~ok
    /\ t_done' = t_done \cup {"parse"}
    /\ IF ok THEN t_pc' = After(2, t_args) /\ UNCHANGED t_error ELSE Fatal
    /\ UNCHANGED <<t_args, rt_num_failed, cmd_num_failed, job_failures, qor_failures,
                   fatal_caught>>
    /\ RegUnchanged

\* run_tasks: create_golden_results_for_tasks(args, configs)
TkCreateGolden(ok) ==
    /\ DrvFrame
    /\ t_pc = "create_golden"
    /\ t_done' = t_done \cup {"create_golden"}
    /\ IF ok THEN t_pc' = After(3, t_args) /\ UNCHANGED t_error ELSE Fatal
    /\ UNCHANGED <<t_args, rt_num_failed, cmd_num_failed, job_failures, qor_failures,
                   fatal_caught>>
    /\ RegUnchanged

\* run_tasks: num_failed += check_golden_results_for_tasks(args, configs); the
\* comparisons find q failures, and either all tasks are checked or the check of a
\* later task raises a fatal error
TkCheckGolden(q, ok) ==
    /\ DrvFrame
    /\ t_pc = "check_golden"
    /\ config_fault = "pass_requirements" => ~ok
    /\ t_done' = t_done \cup {"check_golden"}
    /\ qor_failures' = qor_failures + q
    /\ IF ok
       THEN /\ rt_num_failed' = rt_num_failed + q
            /\ t_pc' = After(4, t_args)
            /\ UNCHANGED t_error
       ELSE Fatal /\ UNCHANGED rt_num_failed
    /\ UNCHANGED <<t_args, cmd_num_failed, job_failures, fatal_caught>>
    /\ RegUnchanged

\* run_tasks: summarize_qor and calc_geomean
TkCalcGeomean(ok) ==
    /\ DrvFrame
    /\ t_pc = "calc_geomean"
    /\ t_done' = t_done \cup {"calc_geomean"}
    /\ IF ok THEN t_pc' = After(5, t_args) /\ UNCHANGED t_error ELSE Fatal
    /\ UNCHANGED <<t_args, rt_num_failed, cmd_num_failed, job_failures, qor_failures,
                   fatal_caught>>
    /\ RegUnchanged

\* vtr_command_main: num_failed = run_tasks(args, configs); return num_failed
TkReturn ==
    /\ DrvFrame
    /\ t_pc = "return"
    /\ cmd_num_failed' = rt_num_failed
    /\ t_pc' = "returned"
    /\ UNCHANGED <<t_args, rt_num_failed, t_error, t_done, job_failures, qor_failures,
                   fatal_caught>>
    /\ RegUnchanged

\* vtr_command_main: the except clauses print the error; num_failed is still -1
TkCaught ==
    /\ DrvFrame
    /\ t_pc = "caught"
    /\ fatal_caught' = TRUE
    /\ t_pc' = "returned"
    /\ UNCHANGED <<t_args, rt_num_failed, cmd_num_failed, t_error, t_done,
                   job_failures, qor_failures>>
    /\ RegUnchanged

\* run_reg_test: -parse, -check_golden, -create_golden, -calc_geomean all call
\* parse_single_test
RegSingle ==
    /\ DrvFrame
    /\ reg_pc = "start"
    /\ mode \in {"parse", "check_golden", "create_golden", "calc_geomean"}
    /\ Call(ParseSingleTestArgs(mode = "create_golden"))
    /\ reg_pc' = "wait_single"
    /\ UNCHANGED <<entry, mode, skip_qor, has_vtr, reg_j, num_func_failures,
                   num_qor_failures, exit_code, job_failures, qor_failures, fatal_caught>>

\* run_reg_test: only -parse keeps what parse_single_test returns
RegAfterSingle ==
    /\ DrvFrame
    /\ reg_pc = "wait_single"
    /\ t_pc = "returned"
    /\ num_qor_failures' = IF mode = "parse" THEN cmd_num_failed ELSE 0
    /\ reg_pc' = "summary"
    /\ TaskUnchanged
    /\ UNCHANGED <<entry, mode, skip_qor, has_vtr, reg_j, num_func_failures, exit_code,
                   job_failures, qor_failures, fatal_caught>>

\* run_reg_test.display_qor: 1 when a qor_geomean.txt is missing, else 0
RegDisplay(missing) ==
    /\ DrvFrame
    /\ reg_pc = "start"
    /\ mode = "display_qor"
    /\ num_qor_failures' = IF missing THEN 1 ELSE 0
    /\ reg_pc' = "summary"
    /\ TaskUnchanged
    /\ UNCHANGED <<entry, mode, skip_qor, has_vtr, reg_j, num_func_failures, exit_code,
                   job_failures, qor_failures, fatal_caught>>

\* run_reg_test: the ODIN tests are run, f of them failing
RegOdin(f) ==
    /\ DrvFrame
    /\ reg_pc = "start"
    /\ mode = "run"
    /\ num_func_failures' = num_func_failures + f
    /\ job_failures' = job_failures + f
    /\ reg_pc' = "odin_done"
    /\ TaskUnchanged
    /\ UNCHANGED <<entry, mode, skip_qor, has_vtr, reg_j, num_qor_failures, exit_code,
                   qor_failures, fatal_caught>>

\* run_reg_test: run_tasks(args, vtr_task_list_files) when there are task lists
RegRunTasks ==
    /\ DrvFrame
    /\ reg_pc = "odin_done"
    /\ IF has_vtr
       THEN Call(RunTasksArgs(reg_j)) /\ reg_pc' = "wait_run"
       ELSE TaskUnchanged /\ reg_pc' = "summary"
    /\ UNCHANGED <<entry, mode, skip_qor, has_vtr, reg_j, num_func_failures,
                   num_qor_failures, exit_code, job_failures, qor_failures, fatal_caught>>

\* run_reg_test: num_func_failures += run_tasks(...); then the golden check
RegAfterRun ==
    /\ DrvFrame
    /\ reg_pc = "wait_run"
    /\ t_pc = "returned"
    /\ num_func_failures' = num_func_failures + cmd_num_failed
    /\ IF skip_qor
       THEN TaskUnchanged /\ reg_pc' = "summary"
       ELSE Call(ParseSingleTestArgs(FALSE)) /\ reg_pc' = "wait_check"
    /\ UNCHANGED <<entry, mode, skip_qor, has_vtr, reg_j, num_qor_failures, exit_code,
                   job_failures, qor_failures, fatal_caught>>

\* run_reg_test: num_qor_failures += parse_single_test(check=True, calculate=True)
RegAfterCheck ==
    /\ DrvFrame
    /\ reg_pc = "wait_check"
    /\ t_pc = "returned"
    /\ num_qor_failures' = num_qor_failures + cmd_num_failed
    /\ reg_pc' = "summary"
    /\ TaskUnchanged
    /\ UNCHANGED <<entry, mode, skip_qor, has_vtr, reg_j, num_func_failures, exit_code,
                   job_failures, qor_failures, fatal_caught>>

\* run_reg_test: sys.exit(num_func_failures + num_qor_failures)
RegExit ==
    /\ DrvFrame
    /\ reg_pc = "summary"
    /\ exit_code' = ExitStatus(num_func_failures + num_qor_failures)
    /\ reg_pc' = "exited"
    /\ TaskUnchanged
    /\ UNCHANGED <<entry, mode, skip_qor, has_vtr, reg_j, num_func_failures,
                   num_qor_failures, job_failures, qor_failures, fatal_caught>>

\* run_reg_test: an exception run_vtr_task did not catch ends the program (status 1)
RegUncaught ==
    /\ DrvFrame
    /\ reg_pc \in {"wait_single", "wait_run", "wait_check"}
    /\ t_pc = "raised"
    /\ exit_code' = 1
    /\ reg_pc' = "exited"
    /\ TaskUnchanged
    /\ UNCHANGED <<entry, mode, skip_qor, has_vtr, reg_j, num_func_failures,
                   num_qor_failures, job_failures, qor_failures, fatal_caught>>

DrvNext ==
    \/ \E ok \in BOOLEAN : TkLoad(ok)
    \/ TkAssert
    \/ \E ok \in BOOLEAN : TkCreateJobs(ok)
    \/ \E nf \in 0..MaxJobFailures : TkRunParallel(nf)
    \/ TkRunParallelRaise
    \/ \E ok \in BOOLEAN : TkParse(ok)
    \/ \E ok \in BOOLEAN : TkCreateGolden(ok)
    \/ \E q \in 0..MaxQorFailures : \E ok \in BOOLEAN : TkCheckGolden(q, ok)
    \/ \E ok \in BOOLEAN : TkCalcGeomean(ok)
    \/ TkReturn
    \/ TkCaught
    \/ RegSingle
    \/ RegAfterSingle
    \/ \E missing \in BOOLEAN : RegDisplay(missing)
    \/ \E f \in 0..1 : RegOdin(f)
    \/ RegRunTasks
    \/ RegAfterRun
    \/ RegAfterCheck
    \/ RegExit
    \/ RegUncaught

SpecDrv == DrvInit /\ [][DrvNext]_vars

-----------------------------------------------------------------------------
(* Claims about the drivers, checked under SpecDrv *)

\* C4: with args.j <= 0, run_tasks raises (the assertion) before any job is
\* created or run and before any parse, golden creation, golden check or geomean.
C4_NonPositiveWorkersRaiseFirst ==
    (t_pc # "idle" /\ t_args.j <= 0) =>
        /\ t_done = {}
        /\ t_pc \in {"load", "assert", "raised", "caught", "returned"}
        /\ t_pc = "raised" => t_error = "assertion"
        /\ t_pc \in {"caught", "returned"} => t_error = "fatal"

\* a run with -j 0 has reached run_tasks, which raised the assertion
C4_Witness ==
    /\ t_args.j = 0 /\ t_args.run
    /\ t_pc = "raised" /\ t_error = "assertion"

\* C5 (as claimed): in every mode the exit code of the regression driver is the
\* number of failed jobs plus the number of failed requirement evaluations that
\* the golden comparisons of the invocation found (stated here for the
\* invocations in which nothing was raised, and without display_qor's own
\* "file missing" result).
C5_AsClaimed ==
    (reg_pc = "exited" /\ mode # "display_qor" /\ t_error = "none" /\ ~fatal_caught) =>
        exit_code = job_failures + qor_failures

\* C6 (as claimed), for the default run mode: the exit code is 0 only if no job
\* failed, no requirement failed and no fatal error was caught.
C6_AsClaimed ==
    (reg_pc = "exited" /\ mode = "run" /\ exit_code = 0) =>
        /\ job_failures = 0
        /\ qor_failures = 0
        /\ ~fatal_caught

-----------------------------------------------------------------------------
(* The pass requirements of vtr/inspect.py.  A value is absent (None) or a     *)
(* string, kept as its sequence of characters; float() is modelled as the       *)
(* parser of plain decimal numerals ([sign] digits [. digits]) into an exact    *)
(* fraction num/den and of "inf" into +infinity, every other string being a     *)
(* ValueError.  The values compared are finite; a bound may be infinite.        *)

Str(chars) == [present |-> TRUE, s |-> chars]

Digit == {"0", "1", "2", "3", "4", "5", "6", "7", "8", "9"}

DigitVal(c) ==
    CASE c = "0" -> 0 [] c = "1" -> 1 [] c = "2" -> 2 [] c = "3" -> 3 [] c = "4" -> 4
      [] c = "5" -> 5 [] c = "6" -> 6 [] c = "7" -> 7 [] c = "8" -> 8 [] c = "9" -> 9

RECURSIVE DigitsToInt(_)
DigitsToInt(ds) ==
    IF ds = <<>> THEN 0
    ELSE DigitsToInt(SubSeq(ds, 1, Len(ds) - 1)) * 10 + DigitVal(ds[Len(ds)])

RECURSIVE Pow10(_)
Pow10(k) == IF k = 0 THEN 1 ELSE 10 * Pow10(k - 1)

Abs(x) == IF x < 0 THEN -x ELSE x

\* float(chars): [ok, inf, num, den] with den > 0; ok = FALSE is a ValueError
Float(chars) ==
    LET signed == chars # <<>> /\ chars[1] \in {"-", "+"}
        body == IF signed THEN Tail(chars) ELSE chars
        dots == {i \in 1..Len(body) : body[i] = "."}
        dot == IF dots = {} THEN Len(body) + 1 ELSE CHOOSE i \in dots : TRUE
        ip == SubSeq(body, 1, dot - 1)
        fp == SubSeq(body, dot + 1, Len(body))
        ok == /\ Cardinality(dots) <= 1
              /\ \A i \in 1..Len(ip) : ip[i] \in Digit
              /\ \A i \in 1..Len(fp) : fp[i] \in Digit
              /\ Len(ip) + Len(fp) >= 1
    IN  IF chars = <<"i", "n", "f">>
        THEN [ok |-> TRUE, inf |-> TRUE, num |-> 1, den |-> 1]
        ELSE IF ok
        THEN [ok |-> TRUE, inf |-> FALSE,
              num |-> (IF signed /\ chars[1] = "-" THEN -1 ELSE 1) * DigitsToInt(ip \o fp),
              den |-> Pow10(Len(fp))]
        ELSE [ok |-> FALSE, inf |-> FALSE, num |-> 0, den |-> 1]

\* float("inf")
Infinity == [ok |-> TRUE, inf |-> TRUE, num |-> 1, den |-> 1]

\* a <= b and a < b on floats (fractions with a positive denominator, or +inf)
Le(a, b) ==
    IF a.inf THEN b.inf
    ELSE IF b.inf THEN TRUE
    ELSE a.num * b.den <= b.num * a.den

Lt(a, b) ==
    IF a.inf THEN FALSE
    ELSE IF b.inf THEN TRUE
    ELSE a.num * b.den < b.num * a.den

IsZero(a) == ~a.inf /\ a.num = 0

\* check_value / golden_value, for golden_value # 0
Quotient(c, g) ==
    [ok |-> TRUE, inf |-> FALSE,
     num |-> (IF g.num < 0 THEN -1 ELSE 1) * c.num * g.den,
     den |-> c.den * Abs(g.num)]

\* abs(check_value - golden_value)
AbsDifference(c, g) ==
    [ok |-> TRUE, inf |-> FALSE,
     num |-> Abs(c.num * g.den - g.num * c.den),
     den |-> c.den * g.den]

\* EqualPassRequirement.check_passed: golden_value == check_value
EqualAsNumbers(golden_value, check_value) ==
    IF /\ golden_value.present /\ check_value.present
       /\ Float(golden_value.s).ok /\ Float(check_value.s).ok
    THEN IF /\ Le(Float(golden_value.s), Float(check_value.s))
            /\ Le(Float(check_value.s), Float(golden_value.s))
         THEN "pass" ELSE "fail"
    ELSE IF golden_value = check_value THEN "pass" ELSE "fail"
EqualCheckPassed(golden_value, check_value) ==
    IF golden_value = check_value THEN "pass" ELSE "fail"

\* "self.min_value() <= norm_check_value <= self.max_value()"
WithinRangeStrict(min_value, max_value, norm_check_value) ==
    Lt(min_value, norm_check_value) /\ Lt(norm_check_value, max_value)
WithinRange(min_value, max_value, norm_check_value) ==
    Le(min_value, norm_check_value) /\ Le(norm_check_value, max_value)

\* "abs(check_value - golden_value) < self.abs_threshold()"
BelowAbsThresholdOrEqual(c, g, abs_threshold) == Le(AbsDifference(c, g), abs_threshold)
BelowAbsThreshold(c, g, abs_threshold) == Lt(AbsDifference(c, g), abs_threshold)

\* RangePassRequirement.check_passed
RangeCheckPassed(min_value, max_value, golden_value, check_value) ==
    IF ~golden_value.present /\ ~check_value.present THEN "pass"
    ELSE IF ~golden_value.present \/ ~check_value.present THEN "fail"
    ELSE LET g == Float(golden_value.s)
             c == Float(check_value.s)
         IN  IF ~g.ok \/ ~c.ok THEN "error"
             ELSE IF IsZero(g) /\ IsZero(c) THEN "pass"
             ELSE LET norm_check_value == IF IsZero(g) THEN Infinity ELSE Quotient(c, g)
                  IN  IF check_value = golden_value THEN "pass"
                      ELSE IF WithinRange(min_value, max_value, norm_check_value)
                           THEN "pass" ELSE "fail"

\* RangeAbsPassRequirement.check_passed
RangeAbsCheckPassed(min_value, max_value, abs_threshold, golden_value, check_value) ==
    IF ~golden_value.present /\ ~check_value.present THEN "pass"
    ELSE IF ~golden_value.present \/ ~check_value.present THEN "fail"
    ELSE LET g == Float(golden_value.s)
             c == Float(check_value.s)
         IN  IF ~g.ok \/ ~c.ok THEN "error"
             ELSE IF IsZero(g) /\ IsZero(c) THEN "pass"
             ELSE LET norm_check_value == IF IsZero(g) THEN Infinity ELSE Quotient(c, g)
                  IN  IF check_value = golden_value THEN "pass"
                      ELSE IF \/ WithinRange(min_value, max_value, norm_check_value)
                              \/ BelowAbsThreshold(c, g, abs_threshold)
                           THEN "pass" ELSE "fail"

\* the check_passed of a requirement built from (kind, params)
CheckPassed(kind, params, golden_value, check_value) ==
    CASE kind = "Equal" -> EqualCheckPassed(golden_value, check_value)
      [] kind = "Range" ->
            RangeCheckPassed(Float(params[1]), Float(params[2]), golden_value, check_value)
      [] kind = "RangeAbs" ->
            RangeAbsCheckPassed(Float(params[1]), Float(params[2]), Float(params[3]),
                                golden_value, check_value)

\* RangePassRequirement.__init__ / RangeAbsPassRequirement.__init__:
\* "if max_value < min_value: raise InspectError"
ValidRequirement(kind, params) ==
    kind = "Equal" \/ ~Lt(Float(params[2]), Float(params[1]))

\* the values the requirements are tried on: an absent value, numerals (some of
\* them different spellings of one number) and a string that is no number
RawValues ==
    {None,
     Str(<<"0">>), Str(<<"0", ".", "0">>), Str(<<"1">>), Str(<<"2">>), Str(<<"3">>),
     Str(<<"5">>), Str(<<"9", "0">>), Str(<<"1", "0", "0">>),
     Str(<<"1", "0", "0", ".", "0">>), Str(<<"1", "0", "5">>), Str(<<"1", "1", "0">>),
     Str(<<"1", "2", "0">>), Str(<<"-", "1">>), Str(<<"a", "b", "c">>)}

\* the requirement lines tried: metric;Equal(), metric;Range(min,max),
\* metric;RangeAbs(min,max,abs_threshold); two of them have max < min
RequirementLines ==
    {<<"Equal", <<>>>>,
     <<"Range", <<<<"0", ".", "9">>, <<"1", ".", "1">>>>>>,
     <<"Range", <<<<"1", ".", "5">>, <<"2">>>>>>,
     <<"Range", <<<<"-", "1">>, <<"1">>>>>>,
     <<"Range", <<<<"0">>, <<"0", ".", "5">>>>>>,
     <<"Range", <<<<"0", ".", "9">>, <<"i", "n", "f">>>>>>,
     <<"Range", <<<<"1", ".", "1">>, <<"0", ".", "9">>>>>>,
     <<"RangeAbs", <<<<"0", ".", "9">>, <<"1", ".", "1">>, <<"2">>>>>>,
     <<"RangeAbs", <<<<"0", ".", "9">>, <<"1", ".", "1">>, <<"0">>>>>>,
     <<"RangeAbs", <<<<"1", ".", "5">>, <<"2">>, <<"0", ".", "5">>>>>>,
     <<"RangeAbs", <<<<"0", ".", "9">>, <<"i", "n", "f">>, <<"0">>>>>>,
     <<"RangeAbs", <<<<"2">>, <<"1">>, <<"1">>>>>>}

ReqInit ==
    /\ rq_pc = "load"
    /\ \E line \in RequirementLines : rq_kind = line[1] /\ rq_params = line[2]
    /\ rq_golden \in RawValues
    /\ rq_check \in RawValues
    /\ rq_verdict = "none"
    /\ SchedIdle /\ DrvIdle /\ ChkIdle /\ JobIdle /\ FlowIdle /\ ParseIdle /\ GmIdle /\ CfgIdle /\ TblIdle

\* load_pass_requirements builds the requirement; max < min is an InspectError
ReqConstruct ==
    /\ rq_pc = "load"
    /\ rq_pc' = IF ValidRequirement(rq_kind, rq_params) THEN "ready" ELSE "config_error"
    /\ UNCHANGED <<rq_kind, rq_params, rq_golden, rq_check, rq_verdict>>
    /\ ReqFrame

\* pass_requirements[metric].check_passed(golden_value, check_value)
ReqCheck ==
    /\ rq_pc = "ready"
    /\ rq_verdict' = CheckPassed(rq_kind, rq_params, rq_golden, rq_check)
    /\ rq_pc' = "checked"
    /\ UNCHANGED <<rq_kind, rq_params, rq_golden, rq_check>>
    /\ ReqFrame

ReqNext ==
    \/ ReqConstruct
    \/ ReqCheck

SpecReq == ReqInit /\ [][ReqNext]_vars

-----------------------------------------------------------------------------
(* Claims about the pass requirements, checked under SpecReq *)

\* two values are the same raw value: both absent, or the same characters
SameRaw(a, b) ==
    /\ a.present = b.present
    /\ Len(a.s) = Len(b.s)
    /\ \A i \in 1..Len(a.s) : a.s[i] = b.s[i]

Numeric(v) == v.present /\ Float(v.s).ok

\* m <= c/g and c/g <= m for fractions m, c, g with g # 0, by cross-multiplication
RatioAtLeast(m, c, g) ==
    IF g.num > 0 THEN m.num * c.den * g.num <= c.num * g.den * m.den
    ELSE m.num * c.den * g.num >= c.num * g.den * m.den

RatioAtMost(m, c, g) ==
    IF m.inf THEN TRUE
    ELSE IF g.num > 0 THEN c.num * g.den * m.den <= m.num * c.den * g.num
    ELSE c.num * g.den * m.den >= m.num * c.den * g.num

\* |c - g| < t for fractions c, g, t
DistanceBelow(c, g, t) ==
    Abs(c.num * g.den - g.num * c.den) * t.den < t.num * c.den * g.den

Chars100 == <<"1", "0", "0">>
Range09to11 == <<<<"0", ".", "9">>, <<"1", ".", "1">>>>

\* C7: Equal passes iff the two raw values are identical (both absent, or the
\* same characters); it never converts and never raises.
C7_EqualIffIdentical ==
    (rq_pc = "checked" /\ rq_kind = "Equal") =>
        /\ rq_verdict \in {"pass", "fail"}
        /\ rq_verdict = "pass" <=> SameRaw(rq_golden, rq_check)

\* Equal has failed two spellings of the same number
C7_Witness ==
    /\ rq_pc = "checked" /\ rq_kind = "Equal"
    /\ rq_golden = Str(Chars100) /\ rq_check = Str(<<"1", "0", "0", ".", "0">>)
    /\ rq_verdict = "fail"

\* what C8 says of the examples: Range(0.9,1.1) passes (100,100), (100,105),
\* (0,0) and fails (100,120), (0,5)
RangeExamples ==
    /\ (rq_params = Range09to11 /\ rq_golden = Str(Chars100)) =>
          /\ rq_check = Str(Chars100) => rq_verdict = "pass"
          /\ rq_check = Str(<<"1", "0", "5">>) => rq_verdict = "pass"
          /\ rq_check = Str(<<"1", "2", "0">>) => rq_verdict = "fail"
    /\ (rq_params = Range09to11 /\ rq_golden = Str(<<"0">>)) =>
          /\ rq_check = Str(<<"0">>) => rq_verdict = "pass"
          /\ rq_check = Str(<<"5">>) => rq_verdict = "fail"

\* what C8 says with an absent value, and of two numbers whose reference is not 0
RangeAbsentAndNonZero ==
    LET lo == Float(rq_params[1])
        hi == Float(rq_params[2])
        g == Float(rq_golden.s)
        c == Float(rq_check.s)
    IN  /\ (~rq_golden.present /\ ~rq_check.present) => rq_verdict = "pass"
        /\ (rq_golden.present # rq_check.present) => rq_verdict = "fail"
        /\ (Numeric(rq_golden) /\ Numeric(rq_check)) => rq_verdict \in {"pass", "fail"}
        /\ (Numeric(rq_golden) /\ Numeric(rq_check) /\ g.num # 0) =>
              (rq_verdict = "pass" <=>
                  \/ SameRaw(rq_golden, rq_check)
                  \/ RatioAtLeast(lo, c, g) /\ RatioAtMost(hi, c, g))

\* C8 (as claimed): Range(min,max): both absent pass, one absent fails; for two
\* numbers, reference = 0 passes iff check = 0, and reference # 0 passes iff the raw
\* values are identical or min <= check/reference <= max; with the examples.
C8_AsClaimed ==
    (rq_pc = "checked" /\ rq_kind = "Range") =>
        /\ RangeAbsentAndNonZero
        /\ RangeExamples
        /\ (Numeric(rq_golden) /\ Numeric(rq_check) /\ Float(rq_golden.s).num = 0) =>
              (rq_verdict = "pass" <=> Float(rq_check.s).num = 0)

\* C8 (amended): as claimed, except that reference = 0 passes iff check = 0 or
\* max is +infinity: the ratio is then taken to be infinite and compared with
\* the range like any other ratio.
C8_RangeDecision ==
    (rq_pc = "checked" /\ rq_kind = "Range") =>
        /\ RangeAbsentAndNonZero
        /\ RangeExamples
        /\ (Numeric(rq_golden) /\ Numeric(rq_check) /\ Float(rq_golden.s).num = 0) =>
              (rq_verdict = "pass" <=>
                  (Float(rq_check.s).num = 0 \/ Float(rq_params[2]).inf))

\* Range(0.9,inf) has passed (0,5)
C8_Witness ==
    /\ rq_pc = "checked" /\ rq_kind = "Range"
    /\ rq_params = <<<<"0", ".", "9">>, <<"i", "n", "f">>>>
    /\ rq_golden = Str(<<"0">>) /\ rq_check = Str(<<"5">>)
    /\ rq_verdict = "pass"

\* C9: RangeAbs(min,max,t) on two numbers passes iff Range(min,max) passes or
\* |check - reference| < t; with an absent value it decides as Range does; so it
\* passes whatever Range passes, and RangeAbs(0.9,1.1,2) passes (1,2).
C9_RangeAbsIsRangeOrClose ==
    (rq_pc = "checked" /\ rq_kind = "RangeAbs") =>
        LET lo == Float(rq_params[1])
            hi == Float(rq_params[2])
            t == Float(rq_params[3])
            g == Float(rq_golden.s)
            c == Float(rq_check.s)
            range == RangeCheckPassed(lo, hi, rq_golden, rq_check)
        IN  /\ (Numeric(rq_golden) /\ Numeric(rq_check)) =>
                  /\ rq_verdict \in {"pass", "fail"}
                  /\ rq_verdict = "pass" <=> (range = "pass" \/ DistanceBelow(c, g, t))
            /\ (~rq_golden.present \/ ~rq_check.present) => rq_verdict = range
            /\ range = "pass" => rq_verdict = "pass"
            /\ (/\ rq_params = Range09to11 \o <<<<"2">>>>
                /\ rq_golden = Str(<<"1">>) /\ rq_check = Str(<<"2">>)) =>
                  rq_verdict = "pass"

\* RangeAbs(0.9,1.1,2) has passed (1,2), which Range(0.9,1.1) fails
C9_Witness ==
    /\ rq_pc = "checked" /\ rq_kind = "RangeAbs"
    /\ rq_params = Range09to11 \o <<<<"2">>>>
    /\ rq_golden = Str(<<"1">>) /\ rq_check = Str(<<"2">>)
    /\ rq_verdict = "pass"
    /\ RangeCheckPassed(Float(rq_params[1]), Float(rq_params[2]), rq_golden, rq_check) = "fail"

-----------------------------------------------------------------------------
(* The golden comparison of one task: check_golden_results_for_task and        *)
(* check_two_files (run_vtr_task.py), on result tables as load_parse_results    *)
(* builds them: primary key (arch, circuit, script_params) -> row, a row       *)
(* holding the raw value of each column it has.                                 *)

STATUS == "vpr_status"
WIDTH == "min_chan_width"

\* the primary keys of the tables tried, in the order of the rows of a file
KeyOrder == <<<<"k6_N10", "ch_intrinsics", "common">>, <<"k6_N10", "diffeq1", "common">>>>
Keys == {KeyOrder[i] : i \in 1..Len(KeyOrder)}

\* the rows tried; the last one is a short row, without the width column
Rows ==
    {(STATUS :> Str(<<"o", "k">>)) @@ (WIDTH :> Str(Chars100)),
     (STATUS :> Str(<<"o", "k">>)) @@ (WIDTH :> Str(<<"1", "0", "5">>)),
     (STATUS :> Str(<<"e", "r", "r">>)) @@ (WIDTH :> Str(<<"1", "2", "0">>)),
     (STATUS :> Str(<<"o", "k">>)) @@ (WIDTH :> None),
     (STATUS :> Str(<<"o", "k">>)) @@ (WIDTH :> Str(<<"a", "b", "c">>)),
     (STATUS :> Str(<<"o", "k">>))}

Tables == UNION {[K -> Rows] : K \in SUBSET Keys}

\* the requirement files tried; the last two do not load
RequirementFiles ==
    {<<<<STATUS, "Equal", <<>>>>, <<WIDTH, "Range", Range09to11>>>>,
     <<<<STATUS, "Equal", <<>>>>, <<WIDTH, "RangeAbs", Range09to11 \o <<<<"2">>>>>>>>,
     <<<<WIDTH, "Range", Range09to11>>>>,
     <<<<STATUS, "Equal", <<>>>>, <<WIDTH, "Range", <<<<"1", ".", "1">>, <<"0", ".", "9">>>>>>>>,
     <<<<STATUS, "Equal", <<>>>>, <<STATUS, "Equal", <<>>>>>>}

\* load_pass_requirements: every line names a known function with the right
\* number of arguments and min <= max, and no metric has two lines
Arity(kind) == CASE kind = "Equal" -> 0 [] kind = "Range" -> 2 [] kind = "RangeAbs" -> 3

LoadsPassRequirements(lines) ==
    /\ \A i \in 1..Len(lines) :
          /\ lines[i][2] \in {"Equal", "Range", "RangeAbs"}
          /\ Len(lines[i][3]) = Arity(lines[i][2])
          /\ ValidRequirement(lines[i][2], lines[i][3])
    /\ \A i, k \in 1..Len(lines) : i # k => lines[i][1] # lines[k][1]

\* ParseResults.metrics(arch, circuit, script_params) == None
NoMetrics(results, key) == key \notin DOMAIN results

\* "for metric in pass_requirements.keys(): for ... in first_results ...:
\*  if metric not in result: raise ...", and the same for second_results
MetricMissing(reqs, results) ==
    \E i \in 1..Len(reqs) : \E key \in DOMAIN results : reqs[i][1] \notin DOMAIN results[key]

\* second_primary_keys / first_primary_keys: the keys of a table in row order
PrimaryKeys(results) == SelectSeq(KeyOrder, LAMBDA key : key \in DOMAIN results)

\* "for arch, circuit, script_params in second_primary_keys:
\*  if first_results.metrics(arch, circuit,script_params) == None: raise"
ExtraCases(first, second) == {key \in DOMAIN first : NoMetrics(second, key)}
MissingCasesReversed(first, second) == {key \in DOMAIN first : NoMetrics(second, key)}
MissingCases(first, second) == {key \in DOMAIN second : NoMetrics(first, key)}

\* the pairs the comparison loop visits: every second key, every requirement
ComparisonPairsShort(keys, reqs) ==
    [x \in 1..(Len(keys) * Len(reqs) - 1) |->
        <<keys[((x - 1) \div Len(reqs)) + 1], ((x - 1) % Len(reqs)) + 1>>]
ComparisonPairs(keys, reqs) ==
    [x \in 1..(Len(keys) * Len(reqs)) |->
        <<keys[((x - 1) \div Len(reqs)) + 1], ((x - 1) % Len(reqs)) + 1>>]

ChkInit ==
    /\ ck_pc = "task"
    /\ \/ req_file = "none" /\ req_lines = <<>>
       \/ req_file = "given" /\ req_lines \in RequirementFiles
    /\ pass_requirements = <<>>
    /\ first_results \in Tables
    /\ second_results \in Tables
    /\ ck_error = "none" /\ warned = {} /\ todo = <<>> /\ evaluated = {} /\ evaluations = 0
    /\ ck_num_qor_failures = 0
    /\ SchedIdle /\ DrvIdle /\ ReqIdle /\ JobIdle /\ FlowIdle /\ ParseIdle /\ GmIdle /\ CfgIdle /\ TblIdle

ChkKeep == UNCHANGED <<req_file, req_lines, first_results, second_results>>

\* check_golden_results_for_task: without a pass requirements file nothing is checked
CkTask ==
    /\ ck_pc = "task"
    /\ ck_pc' = IF req_file = "none" THEN "returned" ELSE "load"
    /\ UNCHANGED <<pass_requirements, ck_error, warned, todo, evaluated, evaluations, ck_num_qor_failures>>
    /\ ChkKeep /\ ChkFrame

\* check_two_files: the primary keys are always there; load_pass_requirements
CkLoad ==
    /\ ck_pc = "load"
    /\ IF LoadsPassRequirements(req_lines)
       THEN ck_pc' = "metrics" /\ pass_requirements' = req_lines /\ UNCHANGED ck_error
       ELSE ck_pc' = "raised" /\ ck_error' = "config" /\ UNCHANGED pass_requirements
    /\ UNCHANGED <<warned, todo, evaluated, evaluations, ck_num_qor_failures>>
    /\ ChkKeep /\ ChkFrame

\* every required metric is in every row of both tables
CkMetrics ==
    /\ ck_pc = "metrics"
    /\ IF \/ MetricMissing(pass_requirements, first_results)
          \/ MetricMissing(pass_requirements, second_results)
       THEN ck_pc' = "raised" /\ ck_error' = "missing_metric"
       ELSE ck_pc' = "cases" /\ UNCHANGED ck_error
    /\ UNCHANGED <<pass_requirements, warned, todo, evaluated, evaluations, ck_num_qor_failures>>
    /\ ChkKeep /\ ChkFrame

\* the first table has every case of the second
CkCases ==
    /\ ck_pc = "cases"
    /\ IF MissingCases(first_results, second_results) # {}
       THEN ck_pc' = "raised" /\ ck_error' = "missing_case"
       ELSE ck_pc' = "warn" /\ UNCHANGED ck_error
    /\ UNCHANGED <<pass_requirements, warned, todo, evaluated, evaluations, ck_num_qor_failures>>
    /\ ChkKeep /\ ChkFrame

\* warnings for the cases only the first table has; num_qor_failures = 0
CkWarn ==
    /\ ck_pc = "warn"
    /\ warned' = ExtraCases(first_results, second_results)
    /\ ck_num_qor_failures' = 0
    /\ todo' = ComparisonPairs(PrimaryKeys(second_results), pass_requirements)
    /\ ck_pc' = "compare"
    /\ UNCHANGED <<pass_requirements, ck_error, evaluated, evaluations>>
    /\ ChkKeep /\ ChkFrame

\* one pass of the inner loop: a metric one of the rows lacks is skipped, an
\* InspectError of check_passed is caught and counts as a failure
CkCompare ==
    /\ ck_pc = "compare" /\ todo # <<>>
    /\ LET key == todo[1][1]
           req == pass_requirements[todo[1][2]]
           metric == req[1]
       IN  IF NoMetrics(first_results, key)
           THEN /\ ck_pc' = "raised" /\ ck_error' = "type_error"
                /\ UNCHANGED <<todo, evaluated, evaluations, ck_num_qor_failures>>
           ELSE /\ todo' = Tail(todo)
                /\ UNCHANGED <<ck_pc, ck_error>>
                /\ IF \/ metric \notin DOMAIN second_results[key]
                      \/ metric \notin DOMAIN first_results[key]
                   THEN UNCHANGED <<evaluated, evaluations, ck_num_qor_failures>>
                   ELSE /\ evaluated' = evaluated \cup {<<key, metric>>}
                        /\ evaluations' = evaluations + 1
                        /\ ck_num_qor_failures' =
                              IF CheckPassed(req[2], req[3], second_results[key][metric],
                                             first_results[key][metric]) = "pass"
                              THEN ck_num_qor_failures
                              ELSE ck_num_qor_failures + 1
    /\ UNCHANGED <<pass_requirements, warned>>
    /\ ChkKeep /\ ChkFrame

\* "return num_qor_failures"
CkReturn ==
    /\ ck_pc = "compare" /\ todo = <<>>
    /\ ck_pc' = "returned"
    /\ UNCHANGED <<pass_requirements, ck_error, warned, todo, evaluated, evaluations, ck_num_qor_failures>>
    /\ ChkKeep /\ ChkFrame

ChkNext ==
    \/ CkTask
    \/ CkLoad
    \/ CkMetrics
    \/ CkCases
    \/ CkWarn
    \/ CkCompare
    \/ CkReturn

SpecChk == ChkInit /\ [][ChkNext]_vars

-----------------------------------------------------------------------------
(* Claims about the golden comparison, checked under SpecChk *)

\* some case of the reference table is absent from the current table, in a
\* call of check_two_files that has ended
ReferenceCaseAbsent ==
    /\ req_file = "given"
    /\ \E key \in DOMAIN second_results : key \notin DOMAIN first_results

\* C10 (as claimed): when a reference case is absent from the current table,
\* check_two_files ends with the missing-case error, no requirement evaluated
\* and no failure counted.
C10_AsClaimed ==
    (ReferenceCaseAbsent /\ ck_pc \in {"raised", "returned"}) =>
        /\ ck_pc = "raised" /\ ck_error = "missing_case"
        /\ evaluated = {} /\ ck_num_qor_failures = 0

\* C10 (amended): when a reference case is absent from the current table,
\* check_two_files never reaches its comparison loop and never returns: it ends
\* with an error, no requirement evaluated and no failure counted; the error is
\* the missing-case error if the requirement file loads and no row of either
\* table lacks a required metric, and the error of that earlier validation
\* otherwise.
C10_MissingCaseRaisesBeforeComparison ==
    ReferenceCaseAbsent =>
        /\ ck_pc \in {"task", "load", "metrics", "cases", "raised"}
        /\ evaluated = {} /\ ck_num_qor_failures = 0
        /\ ck_pc = "raised" =>
              ck_error =
                 IF ~LoadsPassRequirements(req_lines) THEN "config"
                 ELSE IF \/ MetricMissing(req_lines, first_results)
                         \/ MetricMissing(req_lines, second_results)
                      THEN "missing_metric"
                 ELSE "missing_case"

\* the missing-case error was raised with a reference case absent
C10_Witness ==
    /\ ReferenceCaseAbsent
    /\ ck_pc = "raised" /\ ck_error = "missing_case"
    /\ DOMAIN first_results # {}

\* the pairs (reference key, required metric) whose requirement does not pass:
\* it fails, or its evaluation raises
FailingPairs ==
    {p \in (DOMAIN second_results) \X (1..Len(req_lines)) :
        CheckPassed(req_lines[p[2]][2], req_lines[p[2]][3],
                    second_results[p[1]][req_lines[p[2]][1]],
                    first_results[p[1]][req_lines[p[2]][1]]) # "pass"}

\* C11: when check_two_files returns (every reference key is in the current
\* table), the count is the number of pairs (reference key, required metric)
\* whose requirement does not pass; every such pair was evaluated, exactly once,
\* whatever failed before it, and the keys of the current table alone add nothing.
C11_CountIsFailingPairs ==
    (ck_pc = "returned" /\ req_file = "given") =>
        /\ \A key \in DOMAIN second_results : key \in DOMAIN first_results
        /\ ck_num_qor_failures = Cardinality(FailingPairs)
        /\ evaluated = {<<key, req_lines[i][1]>> :
                            key \in DOMAIN second_results, i \in 1..Len(req_lines)}
        /\ evaluations = Cardinality(DOMAIN second_results) * Len(req_lines)
        /\ \A key \in warned : \A q \in evaluated : q[1] # key

\* two failures were counted for the one reference case, and the current table
\* has a case of its own
C11_Witness ==
    /\ ck_pc = "returned" /\ req_file = "given"
    /\ ck_num_qor_failures = 2 /\ evaluations = 2
    /\ warned # {}

\* C12 (as claimed): once a requirement was evaluated on two present values
\* of which one is not a number, check_two_files has ended with that error:
\* it is neither counted nor followed by further comparisons.
C12_AsClaimed ==
    (\E key \in DOMAIN second_results : \E i \in 1..Len(pass_requirements) :
        /\ <<key, pass_requirements[i][1]>> \in evaluated
        /\ key \in DOMAIN first_results
        /\ CheckPassed(pass_requirements[i][2], pass_requirements[i][3],
                       second_results[key][pass_requirements[i][1]],
                       first_results[key][pass_requirements[i][1]]) = "error")
    => (ck_pc = "raised" /\ ck_num_qor_failures = 0)

-----------------------------------------------------------------------------
(* The job expansion: create_jobs (run_vtr_task.py).  A variant is the text   *)
(* of one script_params_list_add entry, kept as its characters; a job's work  *)
(* directory arch/circuit/label is kept as the triple <<arch, circuit, label>>. *)

COMMON == <<"c", "o", "m", "m", "o", "n">>

\* "common" in script_param
Contains(text, part) ==
    \E i \in 1..(Len(text) - Len(part) + 1) : SubSeq(text, i, i + Len(part) - 1) = part

\* value.replace(" ", "_")
Underscored(text) == [i \in 1..Len(text) |-> IF text[i] = " " THEN "_" ELSE text[i]]

\* load_script_param (vtr/inspect.py); None and "" are the empty text
LoadScriptParam(script_param) ==
    IF script_param = <<>> THEN COMMON
    ELSE Underscored(IF Contains(script_param, COMMON) THEN script_param
                     ELSE COMMON \o <<"_">> \o script_param)

\* the last component of temp_dir for a variant: "common_{}".format(value.replace(" ", "_"))
TempDirLabel(value) == COMMON \o <<"_">> \o Underscored(value)

\* int(x) of the fraction n/d: truncation towards zero
Trunc(n, d) == IF n >= 0 THEN n \div d ELSE -((-n) \div d)

\* "expected_min_W = int(expected_min_W * args.minw_hint_factor);
\*  expected_min_W += expected_min_W % 2"
HintValue(expected_min_W, factor) ==
    LET w == Trunc(expected_min_W * factor.num, factor.den)
    IN  w + (w % 2)

\* ParseResults.metrics of the golden results; a row that is not there is None
NoGolden == [present |-> FALSE, min_chan_width |-> 0, vpr_status |-> "Unknown"]

GoldenMetrics(golden_results, arch, circuit, script_params) ==
    IF <<arch, circuit, LoadScriptParam(script_params)>> \in DOMAIN golden_results
    THEN golden_results[<<arch, circuit, LoadScriptParam(script_params)>>]
    ELSE NoGolden

\* ret_expected_min_W
RetExpectedMinW(circuit, arch, golden_results, script_params) ==
    LET golden_metrics == GoldenMetrics(golden_results, arch, circuit, script_params)
    IN  IF golden_metrics.present THEN golden_metrics.min_chan_width ELSE -1

\* ret_expected_vpr_status
RetExpectedVprStatus(arch, circuit, golden_results, script_params) ==
    LET golden_metrics == GoldenMetrics(golden_results, arch, circuit, script_params)
    IN  IF golden_metrics.present THEN golden_metrics.vpr_status ELSE "Unknown"

\* cmd after the hint and expect-failure flags of one (variant of a) pair were appended
WithFlags(flags, temp_dir, expected_min_W, expected_vpr_status) ==
    [temp_dir |-> Append(flags.temp_dir, temp_dir),
     hint |-> IF expected_min_W > 0 THEN Append(flags.hint, expected_min_W) ELSE flags.hint,
     expect_fail |-> IF expected_vpr_status # "success" /\ expected_vpr_status # "Unknown"
                     THEN Append(flags.expect_fail, expected_vpr_status)
                     ELSE flags.expect_fail]

\* a parse command: its results directory and its arch=, circuit=, script_params=
NoCommand == [present |-> FALSE, dir |-> <<>>, arch |-> "", circuit |-> "",
              script_params |-> <<>>]

ParseCommand(given, arch, circuit, dir_label, script_params) ==
    IF given
    THEN [present |-> TRUE, dir |-> <<arch, circuit, dir_label>>, arch |-> arch,
          circuit |-> circuit, script_params |-> script_params]
    ELSE NoCommand

\* itertools.product(config.archs, config.circuits): the p-th pair
PairCountOfArchs(config) == Len(config.archs)
PairCount(config) == Len(config.archs) * Len(config.circuits)
ArchOf(config, p) == config.archs[((p - 1) \div Len(config.circuits)) + 1]
CircuitOf(config, p) == config.circuits[((p - 1) % Len(config.circuits)) + 1]

\* the variants tried: "-x 1", "-y", "-x_1", "common_-y"
VariantX1 == <<"-", "x", " ", "1">>
VariantY == <<"-", "y">>
VariantX_1 == <<"-", "x", "_", "1">>
VariantCommonY == COMMON \o <<"_", "-", "y">>

VariantLists ==
    {<<>>, <<VariantX1>>, <<VariantX1, VariantY>>, <<VariantX1, VariantX_1>>,
     <<VariantY, VariantCommonY>>}

\* the rows a golden_results.txt may hold for a key
GoldenRows ==
    {NoGolden,
     [present |-> TRUE, min_chan_width |-> 3, vpr_status |-> "success"],
     [present |-> TRUE, min_chan_width |-> 10, vpr_status |-> "exited with return code 1"]}

\* the labels a configuration's jobs get
LabelsOf(values) ==
    IF values = <<>> THEN {COMMON} ELSE {LoadScriptParam(values[i]) : i \in 1..Len(values)}

\* a golden table: per label of the configuration a row or none, for every pair
GoldenTables(archs, circuits, values) ==
    {[key \in {k \in {archs[i] : i \in 1..Len(archs)} \X {circuits[i] : i \in 1..Len(circuits)}
                      \X LabelsOf(values) : by_label[k[3]].present} |-> by_label[key[3]]] :
        by_label \in [LabelsOf(values) -> GoldenRows]}

TaskConfigs ==
    {[task_name |-> "regression_basic", archs |-> archs, circuits |-> circuits,
      script_params_list_add |-> values, golden |-> golden,
      second_parse_file |-> second, qor_parse_file |-> qor] :
        archs \in {<<"k4">>, <<"k4", "k6">>}, circuits \in {<<"c1">>, <<"c1", "c2">>},
        values \in VariantLists, second \in BOOLEAN, qor \in BOOLEAN,
        golden \in UNION {GoldenTables(<<"k4", "k6">>, <<"c1", "c2">>, v) : v \in VariantLists}}

\* a second configuration of the task list
OtherConfig ==
    [task_name |-> "regression_other", archs |-> <<"k6">>, circuits |-> <<"c2">>,
     script_params_list_add |-> <<VariantY>>,
     golden |-> (<<"k6", "c2", LoadScriptParam(VariantY)>> :>
                    [present |-> TRUE, min_chan_width |-> 3, vpr_status |-> "success"]),
     second_parse_file |-> FALSE, qor_parse_file |-> TRUE]

HintFactors == {[num |-> 1, den |-> 1], [num |-> 3, den |-> 2]}

JobInit ==
    /\ cj_pc = "pair"
    /\ \E config \in TaskConfigs : configs \in {<<config>>, <<config, OtherConfig>>}
    /\ minw_hint_factor \in HintFactors
    /\ cj_config = 1 /\ cj_pair = 1 /\ cj_value = 0
    /\ cmd = NoFlags
    /\ jobs = <<>>
    /\ SchedIdle /\ DrvIdle /\ ReqIdle /\ ChkIdle /\ FlowIdle /\ ParseIdle /\ GmIdle /\ CfgIdle /\ TblIdle

\* the loops move on to the next pair, the next configuration, or end
NextPair ==
    /\ cj_value' = 0
    /\ IF cj_pair < PairCount(configs[cj_config])
       THEN cj_pair' = cj_pair + 1 /\ UNCHANGED cj_config /\ cj_pc' = "pair"
       ELSE /\ cj_pair' = 1 /\ cj_config' = cj_config + 1
            /\ cj_pc' = IF cj_config < Len(configs) THEN "pair" ELSE "done"

\* a pair of a configuration without variants: one job, labelled "common"
CjSingle ==
    /\ cj_pc = "pair"
    /\ configs[cj_config].script_params_list_add = <<>>
    /\ LET config == configs[cj_config]
           arch == ArchOf(config, cj_pair)
           circuit == CircuitOf(config, cj_pair)
           flags == WithFlags(NoFlags, COMMON,
                              HintValue(RetExpectedMinW(circuit, arch, config.golden, <<>>),
                                        minw_hint_factor),
                              RetExpectedVprStatus(arch, circuit, config.golden, <<>>))
       IN  /\ cmd' = flags
           /\ jobs' = Append(jobs,
                 [task_name |-> config.task_name, arch |-> arch, circuit |-> circuit,
                  work_dir |-> <<arch, circuit, COMMON>>,
                  run_command |-> [temp_dir |-> flags.temp_dir, hint |-> flags.hint,
                                   expect_fail |-> flags.expect_fail, params |-> <<>>],
                  parse_command |-> ParseCommand(TRUE, arch, circuit, COMMON, COMMON),
                  second_parse_command |->
                      ParseCommand(config.second_parse_file, arch, circuit, COMMON, COMMON),
                  qor_parse_command |->
                      ParseCommand(config.qor_parse_file, arch, circuit, COMMON, COMMON)])
    /\ NextPair
    /\ UNCHANGED <<configs, minw_hint_factor>>
    /\ JobFrame

\* a pair of a configuration with variants: cmd is built once for the pair
CjBegin ==
    /\ cj_pc = "pair"
    /\ configs[cj_config].script_params_list_add # <<>>
    /\ cmd' = NoFlags
    /\ cj_value' = 1
    /\ cj_pc' = "variant"
    /\ UNCHANGED <<configs, minw_hint_factor, cj_config, cj_pair, jobs>>
    /\ JobFrame

\* one pass of "for value in config.script_params_list_add": the flags are
\* appended to the cmd of the pair ("cmd += ..."), the job gets cmd + value
CjVariant ==
    /\ cj_pc = "variant"
    /\ LET config == configs[cj_config]
           arch == ArchOf(config, cj_pair)
           circuit == CircuitOf(config, cj_pair)
           value == config.script_params_list_add[cj_value]
           label == LoadScriptParam(value)
           flags == WithFlags(cmd, TempDirLabel(value),
                              HintValue(RetExpectedMinW(circuit, arch, config.golden, value),
                                        minw_hint_factor),
                              RetExpectedVprStatus(arch, circuit, config.golden, value))
       IN  /\ cmd' = flags
           /\ jobs' = Append(jobs,
                 [task_name |-> config.task_name, arch |-> arch, circuit |-> circuit,
                  work_dir |-> <<arch, circuit, label>>,
                  run_command |-> [temp_dir |-> flags.temp_dir, hint |-> flags.hint,
                                   expect_fail |-> flags.expect_fail, params |-> value],
                  parse_command |-> ParseCommand(TRUE, arch, circuit, label, label),
                  second_parse_command |->
                      ParseCommand(config.second_parse_file, arch, circuit, label, label),
                  qor_parse_command |->
                      ParseCommand(config.qor_parse_file, arch, circuit, label, COMMON)])
           /\ IF cj_value < Len(config.script_params_list_add)
              THEN cj_value' = cj_value + 1 /\ UNCHANGED <<cj_pc, cj_config, cj_pair>>
              ELSE NextPair
    /\ UNCHANGED <<configs, minw_hint_factor>>
    /\ JobFrame

\* "return jobs"
CjReturn ==
    /\ cj_pc = "done"
    /\ cj_pc' = "returned"
    /\ UNCHANGED <<configs, minw_hint_factor, cj_config, cj_pair, cj_value, cmd, jobs>>
    /\ JobFrame

JobNext ==
    \/ CjSingle
    \/ CjBegin
    \/ CjVariant
    \/ CjReturn

SpecJob == JobInit /\ [][JobNext]_vars

-----------------------------------------------------------------------------
(* Claims about the job expansion, checked under SpecJob *)

\* the number of jobs a configuration stands for: A * C * V, or A * C without variants
JobCount(config) ==
    Len(config.archs) * Len(config.circuits) *
        (IF config.script_params_list_add = <<>> THEN 1
         ELSE Len(config.script_params_list_add))

\* the jobs of the configuration at position c of the list
JobsOf(c) == SelectSeq(jobs, LAMBDA job : job.task_name = configs[c].task_name)

\* C13: create_jobs returns A*C*V jobs for a configuration with V >= 1 variants
\* and A*C jobs, each labelled "common", for one without; the jobs of several
\* configurations follow each other in the order of the configurations.
C13_JobCount ==
    cj_pc = "returned" =>
        /\ \A c \in 1..Len(configs) :
              /\ Len(JobsOf(c)) = JobCount(configs[c])
              /\ configs[c].script_params_list_add = <<>> =>
                    \A i \in 1..Len(JobsOf(c)) : JobsOf(c)[i].work_dir[3] = COMMON
        /\ Len(jobs) = JobCount(configs[1]) +
                          (IF Len(configs) = 2 THEN JobCount(configs[2]) ELSE 0)
        /\ \A i \in 1..Len(jobs) :
              jobs[i].task_name = configs[IF i <= JobCount(configs[1]) THEN 1 ELSE 2].task_name

\* two architectures, two circuits and two variants gave eight jobs, followed by
\* the job of the second configuration
C13_Witness ==
    /\ cj_pc = "returned" /\ Len(configs) = 2
    /\ Len(configs[1].archs) = 2 /\ Len(configs[1].circuits) = 2
    /\ Len(configs[1].script_params_list_add) = 2
    /\ Len(jobs) = 9

\* the configuration a job was created for, and the golden row of the job's own key
ConfigOf(job) == CHOOSE config \in {configs[c] : c \in 1..Len(configs)} :
                    config.task_name = job.task_name

OwnGolden(job) ==
    IF job.work_dir \in DOMAIN ConfigOf(job).golden
    THEN ConfigOf(job).golden[job.work_dir] ELSE NoGolden

\* the smallest even integer >= width * factor
RoundUpToEven(width, factor) ==
    LET ceiling == -((-(width * factor.num)) \div factor.den)
    IN  ceiling + (ceiling % 2)

\* C14 (as claimed): no two jobs of one configuration have the same
\* (architecture, circuit, sanitized label) key, nor the same work directory.
C14_AsClaimed ==
    \A i, k \in 1..Len(jobs) :
        (i # k /\ jobs[i].task_name = jobs[k].task_name) =>
            jobs[i].work_dir # jobs[k].work_dir

\* C15 (as claimed): a job's command has the hint flag iff the golden table has
\* a row for the job's own key and the smallest even integer >= min_chan_width *
\* hint_factor is positive; the flag is then there once, with that value.
C15_AsClaimed ==
    \A i \in 1..Len(jobs) :
        jobs[i].run_command.hint =
            IF /\ OwnGolden(jobs[i]).present
               /\ RoundUpToEven(OwnGolden(jobs[i]).min_chan_width, minw_hint_factor) > 0
            THEN <<RoundUpToEven(OwnGolden(jobs[i]).min_chan_width, minw_hint_factor)>>
            ELSE <<>>

\* C16 (as claimed): a job's command has the expect-failure flag iff the golden
\* row of the job's own key records a status other than "success".
C16_AsClaimed ==
    \A i \in 1..Len(jobs) :
        (jobs[i].run_command.expect_fail # <<>>) <=>
            (OwnGolden(jobs[i]).present /\ OwnGolden(jobs[i]).vpr_status # "success")

\* a parse command that carries the identity and the work directory of its job
OwnCommand(job, command) ==
    command.present =>
        /\ command.arch = job.arch /\ command.circuit = job.circuit
        /\ command.script_params = job.work_dir[3]
        /\ command.dir = job.work_dir

\* C17 (as claimed): each parse command of a job has the job's own arch=,
\* circuit=, script_params= and work directory, and a job has the secondary and
\* the QoR-summary command exactly when the configuration names that parse file.
C17_AsClaimed ==
    \A i \in 1..Len(jobs) :
        /\ OwnCommand(jobs[i], jobs[i].parse_command)
        /\ OwnCommand(jobs[i], jobs[i].second_parse_command)
        /\ OwnCommand(jobs[i], jobs[i].qor_parse_command)
        /\ jobs[i].second_parse_command.present <=> ConfigOf(jobs[i]).second_parse_file
        /\ jobs[i].qor_parse_command.present <=> ConfigOf(jobs[i]).qor_parse_file

\* ---------------------------------------------------------------------------
\* Stage sequencer: flow.run
\* ---------------------------------------------------------------------------

\* the stages in their fixed order
VTR_STAGE == <<"odin", "abc", "ace", "vpr", "lec">>

\* the position of a stage in the order
StageNo(stage) == CHOOSE n \in DOMAIN VTR_STAGE : VTR_STAGE[n] = stage

ShouldRunStageAfterStart(stage, flow_start_stage, flow_end_stage) ==
    flow_start_stage < stage /\ stage <= flow_end_stage

ShouldRunStage(stage, flow_start_stage, flow_end_stage) ==
    flow_start_stage <= stage /\ stage <= flow_end_stage

\* the suffix lists of the circuit files given to a run
CircuitExts == {<<".v">>, <<".blif">>}

\* the suffix of an artifact in temp_dir
Suffix(file) ==
    CASE file = "circuit_copy" -> circuit_ext[Len(circuit_ext)]
      [] file = "architecture_copy" -> ".xml"
      [] file \in {"post_odin_netlist", "post_abc_netlist", "post_ace_netlist",
                   "pre_vpr_netlist", "post_synthesis.blif"} -> ".blif"
      [] file = "post_ace_activity_file" -> ".act"
      [] file = "abc.rc" -> ".rc"
      [] file = "vpr.net" -> ".net"
      [] file = "vpr.place" -> ".place"
      [] file = "vpr.route" -> ".route"
      [] file = "post_synthesis.v" -> ".v"
      [] file = "post_synthesis.sdf" -> ".sdf"
      [] OTHER -> ""

\* what abc.run leaves in temp_dir
AfterAbc(present) ==
    LET written == present \cup {"post_abc_netlist", "abc.rc"}
    IN  IF keep_intermediate_files
        THEN written
        ELSE {f \in written : Suffix(f) \notin {".dot", ".v", ".rc"}}

\* the files place and route writes
VprOutputs == {"vpr.net", "vpr.place", "vpr.route",
               "post_synthesis.v", "post_synthesis.sdf", "post_synthesis.blif"}

\* the suffixes the final cleanup removes
CleanupExts ==
    {".xml", ".sdf", ".v"} \cup
        (IF keep_result_files THEN {} ELSE {".net", ".place", ".route"})

FirstBase(netlist) == IF lec_base_netlist = "None" THEN netlist ELSE lec_base_netlist

Invoked(stage, input, output) ==
    Append(executed, [stage |-> stage, input |-> input, output |-> output])

FlowInit ==
    /\ fl_pc = "odin"
    /\ start_stage \in DOMAIN VTR_STAGE
    /\ end_stage \in DOMAIN VTR_STAGE
    /\ power_tech_file \in BOOLEAN
    /\ check_equivalent \in BOOLEAN
    /\ keep_intermediate_files \in BOOLEAN
    /\ keep_result_files \in BOOLEAN
    /\ circuit_ext \in CircuitExts
    /\ next_stage_netlist = "circuit_copy"
    /\ lec_base_netlist =
           IF \E i \in DOMAIN circuit_ext : circuit_ext[i] = "blif"
           THEN "circuit_file_basename" ELSE "None"
    /\ files = {"circuit_copy", "architecture_copy"}
    /\ executed = <<>>
    /\ fl_error = "none"
    /\ fl_unlinked = {}
    /\ fl_missing = "None"
    /\ SchedIdle /\ DrvIdle /\ ReqIdle /\ ChkIdle /\ JobIdle /\ ParseIdle /\ GmIdle /\ CfgIdle /\ TblIdle

FlowArgs == <<start_stage, end_stage, power_tech_file, check_equivalent,
              keep_intermediate_files, keep_result_files, circuit_ext>>

\* an exception leaves run
FlRaise(error, log, present) ==
    /\ fl_pc' = "raised" /\ fl_error' = error
    /\ executed' = log /\ files' = present
    /\ UNCHANGED <<next_stage_netlist, lec_base_netlist, fl_unlinked, fl_missing>>

\* copyfile or unlink of an artifact that is not in temp_dir raises
\* FileNotFoundError, after the artifacts of removed were unlinked
FlMissing(artifact, log, present, removed) ==
    /\ fl_pc' = "raised" /\ fl_error' = "missing_file"
    /\ fl_missing' = artifact
    /\ executed' = log /\ files' = present
    /\ fl_unlinked' = fl_unlinked \cup removed
    /\ UNCHANGED <<next_stage_netlist, lec_base_netlist>>

\* a step is skipped
FlSkip(pc) ==
    /\ fl_pc' = pc
    /\ UNCHANGED <<next_stage_netlist, lec_base_netlist, files, executed, fl_error,
                   fl_unlinked, fl_missing>>

\* RTL elaboration and synthesis. circuit_ext is a list of suffixes, so the
\* test circuit_ext != ".blif" holds whatever the circuit is.
FlOdin ==
    /\ fl_pc = "odin"
    /\ IF ShouldRunStage(StageNo("odin"), start_stage, end_stage)
       THEN LET log == Invoked("odin", next_stage_netlist, "post_odin_netlist")
            IN  \/ /\ fl_pc' = "abc"
                   /\ executed' = log
                   /\ files' = files \cup {"post_odin_netlist"}
                   /\ next_stage_netlist' = "post_odin_netlist"
                   /\ lec_base_netlist' = FirstBase("post_odin_netlist")
                   /\ UNCHANGED <<fl_error, fl_unlinked, fl_missing>>
                \/ FlRaise("command", log, files)
       ELSE FlSkip("abc")
    /\ UNCHANGED FlowArgs
    /\ FlowFrame

\* logic optimization and technology mapping
FlAbc ==
    /\ fl_pc = "abc"
    /\ IF ShouldRunStage(StageNo("abc"), start_stage, end_stage)
       THEN LET log == Invoked("abc", next_stage_netlist, "post_abc_netlist")
            IN  \/ /\ fl_pc' = "ace"
                   /\ executed' = log
                   /\ files' = AfterAbc(files)
                   /\ fl_unlinked' = fl_unlinked \cup (files \ AfterAbc(files))
                   /\ next_stage_netlist' = "post_abc_netlist"
                   /\ lec_base_netlist' = FirstBase("post_abc_netlist")
                   /\ UNCHANGED <<fl_error, fl_missing>>
                \/ FlRaise("command", log, files)
       ELSE FlSkip("ace")
    /\ UNCHANGED FlowArgs
    /\ FlowFrame

\* power activity estimation: the whole block under "if power_tech_file"
FlAce ==
    /\ fl_pc = "ace"
    /\ IF power_tech_file
       THEN LET runs == ShouldRunStage(StageNo("ace"), start_stage, end_stage)
                log == IF runs
                       THEN Invoked("ace", next_stage_netlist, "post_ace_netlist")
                       ELSE executed
                written == IF runs
                           THEN files \cup {"post_ace_netlist", "post_ace_activity_file"}
                           ELSE files
                unlinked == written \ {next_stage_netlist}
            IN  \/ runs /\ FlRaise("command", log, files)
                \/ /\ ~keep_intermediate_files
                   /\ next_stage_netlist \notin written
                   /\ FlMissing(next_stage_netlist, log, written, {})
                \/ /\ ~keep_intermediate_files
                   /\ next_stage_netlist \in written
                   /\ "post_odin_netlist" \notin unlinked
                   /\ FlMissing("post_odin_netlist", log, unlinked, {next_stage_netlist})
                \/ /\ \/ keep_intermediate_files
                      \/ /\ next_stage_netlist \in written
                         /\ "post_odin_netlist" \in unlinked
                   /\ fl_pc' = "vpr"
                   /\ executed' = log
                   /\ files' = IF keep_intermediate_files
                               THEN written
                               ELSE unlinked \ {"post_odin_netlist"}
                   /\ fl_unlinked' = IF keep_intermediate_files
                                     THEN fl_unlinked
                                     ELSE fl_unlinked \cup
                                              {next_stage_netlist, "post_odin_netlist"}
                   /\ next_stage_netlist' = "post_ace_netlist"
                   /\ lec_base_netlist' = FirstBase("post_ace_netlist")
                   /\ UNCHANGED <<fl_error, fl_missing>>
       ELSE FlSkip("vpr")
    /\ UNCHANGED FlowArgs
    /\ FlowFrame

\* pack, place and route
FlVpr ==
    /\ fl_pc = "vpr"
    /\ IF ShouldRunStage(StageNo("vpr"), start_stage, end_stage)
       THEN LET log == Invoked("vpr", next_stage_netlist, "post_vpr_netlist")
                copied == files \cup {"pre_vpr_netlist"}
            IN  \/ /\ next_stage_netlist \notin files
                   /\ FlMissing(next_stage_netlist, executed, files, {})
                \/ /\ next_stage_netlist \in files
                   /\ FlRaise("command", log, copied)
                \/ /\ next_stage_netlist \in files
                   /\ fl_pc' = "lec"
                   /\ executed' = log
                   /\ files' = copied \cup VprOutputs
                   /\ lec_base_netlist' = FirstBase("pre_vpr_netlist")
                   /\ UNCHANGED <<next_stage_netlist, fl_error, fl_unlinked, fl_missing>>
       ELSE FlSkip("lec")
    /\ UNCHANGED FlowArgs
    /\ FlowFrame

\* logical equivalence check
FlLec ==
    /\ fl_pc = "lec"
    /\ IF check_equivalent
       THEN LET log == Invoked("lec", lec_base_netlist, "None")
            IN  \/ /\ fl_pc' = "cleanup"
                   /\ executed' = log
                   /\ UNCHANGED <<next_stage_netlist, lec_base_netlist, files, fl_error,
                                  fl_unlinked, fl_missing>>
                \/ FlRaise("not_equivalent", log, files)
       ELSE FlSkip("cleanup")
    /\ UNCHANGED FlowArgs
    /\ FlowFrame

\* the removal of intermediate files at the end of run
FlCleanup ==
    /\ fl_pc = "cleanup"
    /\ IF keep_intermediate_files
       THEN FlSkip("done")
       ELSE LET swept == {f \in files \ {next_stage_netlist} :
                              Suffix(f) \notin CleanupExts}
            IN  \/ /\ next_stage_netlist \notin files
                   /\ FlMissing(next_stage_netlist, executed, files, {})
                \/ /\ next_stage_netlist \in files
                   /\ power_tech_file
                   /\ "post_ace_activity_file" \notin swept
                   /\ FlMissing("post_ace_activity_file", executed, swept, files \ swept)
                \/ /\ next_stage_netlist \in files
                   /\ power_tech_file => "post_ace_activity_file" \in swept
                   /\ fl_pc' = "done"
                   /\ files' = IF power_tech_file
                               THEN swept \ {"post_ace_activity_file"}
                               ELSE swept
                   /\ fl_unlinked' = fl_unlinked \cup (files \ files')
                   /\ UNCHANGED <<next_stage_netlist, lec_base_netlist, executed, fl_error,
                                  fl_missing>>
    /\ UNCHANGED FlowArgs
    /\ FlowFrame

FlowNext ==
    \/ FlOdin
    \/ FlAbc
    \/ FlAce
    \/ FlVpr
    \/ FlLec
    \/ FlCleanup

SpecFlow == FlowInit /\ [][FlowNext]_vars

\* the stages executed so far, by position in the order
ExecutedStages == {StageNo(executed[i].stage) : i \in DOMAIN executed}

InWindow(stage) == start_stage <= StageNo(stage) /\ StageNo(stage) <= end_stage

\* the executed stages ran in the fixed order, none of them twice
InOrderOnce ==
    \A i, k \in DOMAIN executed :
        i < k => StageNo(executed[i].stage) < StageNo(executed[k].stage)

\* C18 (as claimed): when run has returned, the stages it executed are exactly
\* the stages of odin < abc < ace < vpr < lec inside the window start_stage ..
\* end_stage (ace only with a technology file), in that order and once each.
C18_AsClaimed ==
    fl_pc = "done" =>
        /\ InOrderOnce
        /\ \A stage \in {"odin", "abc", "vpr", "lec"} :
               StageNo(stage) \in ExecutedStages <=> InWindow(stage)
        /\ StageNo("ace") \in ExecutedStages <=> (InWindow("ace") /\ power_tech_file)

\* C18 (amended): odin, abc, ace and vpr are executed only inside the window
\* (ace only with a technology file) and lec only when check_equivalent is
\* set; the executed stages run in the fixed order, none twice; and when run
\* has returned, every one of odin, abc, vpr inside the window, ace inside the
\* window with a technology file, and lec with check_equivalent was executed.
C18_StagesFollowWindow ==
    /\ InOrderOnce
    /\ \A i \in DOMAIN executed :
           /\ executed[i].stage \in {"odin", "abc", "ace", "vpr"} =>
                  InWindow(executed[i].stage)
           /\ executed[i].stage = "ace" => power_tech_file
           /\ executed[i].stage = "lec" => check_equivalent
    /\ fl_pc = "done" =>
           /\ \A stage \in {"odin", "abc", "vpr"} :
                  InWindow(stage) => StageNo(stage) \in ExecutedStages
           /\ (InWindow("ace") /\ power_tech_file) => StageNo("ace") \in ExecutedStages
           /\ check_equivalent => StageNo("lec") \in ExecutedStages

\* a returned run with a window strictly inside the order that executed abc,
\* ace and the equivalence check and skipped odin and vpr
C18_Witness ==
    /\ fl_pc = "done" /\ start_stage = 2 /\ end_stage = 3
    /\ power_tech_file /\ check_equivalent
    /\ ExecutedStages = {StageNo("abc"), StageNo("ace"), StageNo("lec")}

\* the netlist produced earliest in the run: the user's netlist when the
\* circuit is a netlist, else what the first executed stage produced (for
\* place and route, the netlist copied as its input)
EarliestNetlist ==
    IF circuit_ext = <<".blif">> THEN "circuit_file_basename"
    ELSE IF executed[1].stage = "vpr" THEN "pre_vpr_netlist"
    ELSE executed[1].output

\* C28 (as claimed): a requested equivalence check runs after every other
\* executed stage, its reference netlist is the netlist produced earliest in
\* the run (the user's netlist when the circuit is given as a netlist, else the
\* output of the first executed stage), and a check that does not report
\* equivalence raises an error.
C28_AsClaimed ==
    /\ \A i \in DOMAIN executed :
           executed[i].stage = "lec" =>
               /\ check_equivalent
               /\ i = Len(executed)
               /\ executed[i].input = EarliestNetlist
    /\ fl_error = "not_equivalent" =>
           fl_pc = "raised" /\ executed[Len(executed)].stage = "lec"
    /\ (fl_pc \in {"cleanup", "done"} /\ check_equivalent) =>
           executed # <<>> /\ executed[Len(executed)].stage = "lec"

\* the inputs of the executed stages that follow another executed stage
ConsumedInputs ==
    {executed[k].input : k \in {n \in 2..Len(executed) : executed[n].stage # "lec"}}

\* the files marked as final results
ResultFiles == {"vpr.net", "vpr.place", "vpr.route"}

C29_DeletedAfterUse ==
    (~keep_intermediate_files /\ fl_pc # "raised") => ConsumedInputs \cap files = {}

C29_DeletedOnce ==
    ~keep_intermediate_files => fl_missing \notin fl_unlinked

C29_ResultFiles ==
    (~keep_intermediate_files /\ fl_pc = "done" /\ StageNo("vpr") \in ExecutedStages) =>
        IF keep_result_files THEN ResultFiles \subseteq files
        ELSE ResultFiles \cap files = {}

\* C29 (as claimed): with keep_intermediate_files false, the input of every
\* executed stage that follows another executed stage is deleted once the stage
\* has consumed it, no such artifact is unlinked a second time, and the .net,
\* .place and .route files are deleted iff keep_result_files is false too.
C29_AsClaimed ==
    /\ C29_DeletedAfterUse
    /\ C29_DeletedOnce
    /\ C29_ResultFiles

\* the copy or unlink that raised was not of an artifact unlinked before
C30_NoUseAfterUnlink == fl_missing \notin fl_unlinked

\* the reference netlist handed to the equivalence check has not been unlinked
C30_ReferenceExists ==
    (fl_pc \in {"cleanup", "raised"} /\ executed # <<>>
        /\ executed[Len(executed)].stage = "lec") =>
            executed[Len(executed)].input \notin fl_unlinked

\* C30 (as claimed): for every start and end stage, technology file,
\* keep_intermediate_files and check_equivalent, no step of run copies or
\* unlinks an artifact that an earlier step has unlinked, and the reference
\* netlist handed to the equivalence check has not been unlinked.
C30_AsClaimed ==
    /\ C30_NoUseAfterUnlink
    /\ C30_ReferenceExists

\* C19 (as claimed): the handle next_stage_netlist changes only in a step that
\* executes a stage, and then becomes the output of that stage.
C19_AsClaimed ==
    [][next_stage_netlist' # next_stage_netlist =>
          /\ Len(executed') = Len(executed) + 1
          /\ next_stage_netlist' = executed'[Len(executed')].output]_vars

\* ---------------------------------------------------------------------------
\* Metric parser: parse_vtr_flow (vtr/parse_vtr_flow.py, scripts/parse_vtr_flow.py
\* and flow.parse_vtr_flow)
\* ---------------------------------------------------------------------------

\* the number of files of the results directory that a file glob matches
NumFiles(filename) ==
    CASE filename = "missing.out" -> 0
      [] filename = "vpr.out" -> 1
      [] filename = "*.log" -> 2

\* a declared default value, or none
NoDefault == [present |-> FALSE, s |-> ""]
Default(s) == [present |-> TRUE, s |-> s]

\* the parse patterns of a given name: glob, regex with or without a capture
\* group, with or without a default value
PatternsNamed(name) ==
    {[name |-> name, filename |-> f, groups |-> g, default |-> dflt] :
        f \in {"missing.out", "vpr.out", "*.log"}, g \in BOOLEAN,
        dflt \in {NoDefault, Default("0")}}

\* the pattern files: one or two patterns with distinct names
PatternLists ==
    {<<p>> : p \in PatternsNamed("a")} \cup
    {<<p, q>> : p \in PatternsNamed("a"), q \in PatternsNamed("b")}

\* a line of a result file: the number of '#' it starts with, whether the text
\* after them matches the regex at its start, and the first capture group
ResultLine(hashes, matches, value) ==
    [hashes |-> hashes, matches |-> matches, value |-> value]

FileContents ==
    {<<>>,
     <<ResultLine(0, FALSE, "")>>,
     <<ResultLine(0, TRUE, "10"), ResultLine(1, TRUE, "20")>>,
     <<ResultLine(1, TRUE, "20"), ResultLine(0, TRUE, "10"), ResultLine(0, FALSE, "")>>,
     <<ResultLine(0, TRUE, "10"), ResultLine(2, TRUE, "30")>>}

ExtraParams ==
    {<<>>, <<<<"arch", "k6">>>>, <<<<"circuit", "ch">>, <<"arch", "k6">>>>,
     <<<<"arch", "k6">>, <<"arch", "k4">>>>}

\* extra_params_parsed: an ordered dictionary, a key that comes again keeps its
\* place and takes the later value
RECURSIVE ExtraParamsParsed(_)
ExtraParamsParsed(params) ==
    IF params = <<>>
    THEN <<>>
    ELSE LET front == ExtraParamsParsed(SubSeq(params, 1, Len(params) - 1))
             param == params[Len(params)]
         IN  IF \E n \in DOMAIN front : front[n][1] = param[1]
             THEN [n \in DOMAIN front |->
                      IF front[n][1] = param[1] THEN param ELSE front[n]]
             ELSE Append(front, param)

\* regex().match(line): the two command-line parsers strip one leading '#'
\* first, flow.parse_vtr_flow does not
Stripped(which, line) ==
    line.matches /\ line.hashes <= (IF which = "flow" THEN 0 ELSE 1)

\* the lines of the file on which the regex matches
Hits(which, lines) == {n \in DOMAIN lines : Stripped(which, lines[n])}

\* the value left by the loop over the lines: the first group of the last
\* matching line, or the value set before the loop
LastMatch(which, lines, before) ==
    IF Hits(which, lines) = {}
    THEN before
    ELSE lines[CHOOSE n \in Hits(which, lines) :
                   \A m \in Hits(which, lines) : m <= n].value

PatternNames == [n \in DOMAIN parse_patterns |-> parse_patterns[n].name]

ParseInit ==
    /\ pv_pc = "defaults"
    /\ parser \in {"lib", "script", "flow"}
    /\ parse_patterns \in PatternLists
    /\ extra_params \in (IF parser = "flow" THEN {<<>>} ELSE ExtraParams)
    /\ file_lines \in FileContents
    /\ metrics = NoRows
    /\ pv_done = 0
    /\ out_header = <<>> /\ out_data = <<>>
    /\ pv_error = "none"
    /\ SchedIdle /\ DrvIdle /\ ReqIdle /\ ChkIdle /\ JobIdle /\ FlowIdle /\ GmIdle /\ CfgIdle /\ TblIdle

ParseArgs == <<parser, parse_patterns, extra_params, file_lines>>

\* the defaults loop; the command-line parsers print the header line and the
\* values of the extra parameters
PvDefaults ==
    /\ pv_pc = "defaults"
    /\ metrics' = [name \in {parse_patterns[n].name : n \in DOMAIN parse_patterns} |->
                     LET p == CHOOSE p \in {parse_patterns[n] : n \in DOMAIN parse_patterns} :
                                  p.name = name
                     IN  IF p.default.present THEN p.default.s ELSE ""]
    /\ IF parser = "flow"
       THEN UNCHANGED <<out_header, out_data>>
       ELSE /\ out_header' = [n \in DOMAIN extra_params |-> extra_params[n][1]] \o PatternNames
            /\ out_data' = [n \in DOMAIN ExtraParamsParsed(extra_params) |->
                               ExtraParamsParsed(extra_params)[n][2]]
    /\ pv_pc' = "patterns"
    /\ UNCHANGED <<pv_done, pv_error>>
    /\ UNCHANGED ParseArgs
    /\ ParseFrame

\* one turn of the loop over the patterns
PvPattern ==
    /\ pv_pc = "patterns"
    /\ pv_done < Len(parse_patterns)
    /\ LET parse_pattern == parse_patterns[pv_done + 1]
           num_files == NumFiles(parse_pattern.filename)
           name == parse_pattern.name
       IN  IF num_files > 1
           THEN /\ pv_pc' = "raised"
                /\ pv_error' = IF parser = "lib" THEN "InspectError" ELSE "IndexError"
                /\ UNCHANGED <<metrics, pv_done, out_data>>
           ELSE IF num_files = 1
           THEN IF parser = "flow"
                THEN IF Hits(parser, file_lines) # {} /\ ~parse_pattern.groups
                     THEN /\ pv_pc' = "raised"
                          /\ pv_error' = "IndexError"
                          /\ UNCHANGED <<metrics, pv_done, out_data>>
                     ELSE /\ metrics' = [metrics EXCEPT ![name] =
                                            LastMatch(parser, file_lines, metrics[name])]
                          /\ pv_done' = pv_done + 1
                          /\ UNCHANGED <<pv_pc, pv_error, out_data>>
                ELSE LET value == IF parse_pattern.groups
                                  THEN LastMatch(parser, file_lines, "-1")
                                  ELSE "-1"
                     IN  /\ metrics' = [metrics EXCEPT ![name] = value]
                         /\ out_data' = Append(out_data, value)
                         /\ pv_done' = pv_done + 1
                         /\ UNCHANGED <<pv_pc, pv_error>>
           ELSE /\ out_data' = IF parser = "flow" THEN out_data ELSE Append(out_data, "-1")
                /\ pv_done' = pv_done + 1
                /\ UNCHANGED <<metrics, pv_pc, pv_error>>
    /\ UNCHANGED out_header
    /\ UNCHANGED ParseArgs
    /\ ParseFrame

\* after the loop: flow.parse_vtr_flow writes the metrics as one record, the
\* command-line parsers end the data line
PvReturn ==
    /\ pv_pc = "patterns"
    /\ pv_done = Len(parse_patterns)
    /\ IF parser = "flow"
       THEN /\ out_header' = PatternNames
            /\ out_data' = [n \in DOMAIN parse_patterns |-> metrics[parse_patterns[n].name]]
       ELSE UNCHANGED <<out_header, out_data>>
    /\ pv_pc' = "done"
    /\ UNCHANGED <<metrics, pv_done, pv_error>>
    /\ UNCHANGED ParseArgs
    /\ ParseFrame

ParseNext ==
    \/ PvDefaults
    \/ PvPattern
    \/ PvReturn

SpecParse == ParseInit /\ [][ParseNext]_vars

\* the value the parser reports for the n-th pattern: its field of the data line
Reported(n) == out_data[Len(ExtraParamsParsed(extra_params)) + n]

\* the value a parser reports where nothing was found and nothing is declared
Sentinel == IF parser = "flow" THEN "" ELSE "-1"

\* C20 (as claimed): for a pattern whose glob matches no file, the reported
\* value is the pattern's declared default when one is declared, and the
\* sentinel of the parser otherwise.
C20_AsClaimed ==
    pv_pc = "done" =>
        \A n \in DOMAIN parse_patterns :
            NumFiles(parse_patterns[n].filename) = 0 =>
                Reported(n) = IF parse_patterns[n].default.present
                              THEN parse_patterns[n].default.s
                              ELSE Sentinel

\* the lines that match once one leading '#' is stripped
MatchingLines == {n \in DOMAIN file_lines : file_lines[n].matches /\ file_lines[n].hashes <= 1}

\* the value a parser reports for the n-th pattern when no file matches its glob
NoFileValue(n) ==
    IF parser = "flow"
    THEN IF parse_patterns[n].default.present THEN parse_patterns[n].default.s ELSE ""
    ELSE "-1"

\* C21 (as claimed): for a pattern with a capture group whose glob matches one
\* file, the reported value is the first group of the last line that matches
\* after one leading '#' is stripped, and with no such line it is the value
\* reported when no file matches.
C21_AsClaimed ==
    pv_pc = "done" =>
        \A n \in DOMAIN parse_patterns :
            (NumFiles(parse_patterns[n].filename) = 1 /\ parse_patterns[n].groups) =>
                Reported(n) =
                    IF MatchingLines = {}
                    THEN NoFileValue(n)
                    ELSE file_lines[CHOOSE k \in MatchingLines :
                                        \A m \in MatchingLines : m <= k].value

\* some pattern's glob matches more than one file
AmbiguousPattern == \E n \in DOMAIN parse_patterns : NumFiles(parse_patterns[n].filename) > 1

\* C22 (as claimed): when the glob of some pattern matches more than one file,
\* the parser does not return, and the error that ends it is the InspectError
\* of the ambiguous pattern.
C22_AsClaimed ==
    AmbiguousPattern =>
        /\ pv_pc # "done"
        /\ pv_pc = "raised" => pv_error = "InspectError"

\* C23 (as claimed): the record of a parser that returns has as many data
\* fields as header fields: the keys of the extra parameters in the order
\* given, then the pattern names in declaration order, and under each key the
\* value given with it.
C23_AsClaimed ==
    pv_pc = "done" =>
        /\ Len(out_data) = Len(out_header)
        /\ out_header = [n \in DOMAIN extra_params |-> extra_params[n][1]] \o PatternNames
        /\ \A n \in DOMAIN extra_params : out_data[n] = extra_params[n][2]

\* ---------------------------------------------------------------------------
\* Trend history: calc_geomean
\* ---------------------------------------------------------------------------

MaxInvocations == 3

\* a field of the history file: a text, or the float geo_mean ** (1/num), kept
\* as the product (a fraction, or +inf) and the root
TextField(chars) == [text |-> chars, num |-> 0, den |-> 1, inf |-> FALSE, root |-> 0]
GeoMeanField(product, root) ==
    [text |-> <<>>, num |-> product.num, den |-> product.den, inf |-> product.inf,
     root |-> root]

Minus1 == <<"-", "1">>

\* the latest summary without its four identity columns: the tracked column
\* names and, row by row, the cells; a row of a task with fewer metrics is short
Summaries ==
    {[params |-> <<"x">>, lines |-> << <<<<"2">>>>, <<<<"8">>>> >>],
     [params |-> <<"x">>, lines |-> << <<<<"0">>>>, <<Minus1>>, <<<<"f", "a", "i", "l">>>> >>],
     [params |-> <<"x", "y">>,
      lines |-> << <<<<>>, <<"0", ".", "5">>>>, <<<<"f", "a", "i", "l">>, <<"4">>>> >>],
     [params |-> <<"x", "y">>, lines |-> << <<<<"a">>, <<"3">>>>, <<<<"b">>>> >>],
     [params |-> <<"x">>, lines |-> << <<<<"a">>>>, <<<<"b">>>>, <<<<"a">>>> >>],
     [params |-> <<"x">>, lines |-> << <<<<"a">>>>, <<<<"0">>>>, <<<<"a">>>> >>],
     [params |-> <<"x">>, lines |-> <<>>]}

\* get_latest_run_number
RunNumbers == {<<"1">>, <<"2">>}

\* geo_mean *= float(current_value)
Times(geo_mean, value) ==
    [ok |-> TRUE, inf |-> geo_mean.inf \/ value.inf,
     num |-> geo_mean.num * value.num, den |-> geo_mean.den * value.den]

\* the state of the loop over the lines before any line
ColumnStart ==
    [raised |-> FALSE, geo_mean |-> [ok |-> TRUE, inf |-> FALSE, num |-> 1, den |-> 1],
     num |-> 0, previous_value |-> [none |-> TRUE, s |-> <<>>]]

\* "if not previous_value"
NotPreviousValue(previous_value) == previous_value.none \/ previous_value.s = <<>>

\* the loop over the lines for the column at index: the product and the number
\* of the positive values and previous_value; raised when a line has no such cell
RECURSIVE ColumnLoop(_, _)
ColumnLoop(lines, index) ==
    IF lines = <<>>
    THEN ColumnStart
    ELSE LET before == ColumnLoop(SubSeq(lines, 1, Len(lines) - 1), index)
             line == lines[Len(lines)]
         IN  IF before.raised \/ index > Len(line)
             THEN [before EXCEPT !.raised = TRUE]
             ELSE LET current_value == line[index]
                      value == Float(current_value)
                  IN  IF value.ok
                      THEN IF value.inf \/ value.num > 0
                           THEN [before EXCEPT !.geo_mean = Times(@, value), !.num = @ + 1]
                           ELSE before
                      ELSE IF NotPreviousValue(before.previous_value)
                           THEN [before EXCEPT
                                    !.previous_value = [none |-> FALSE, s |-> current_value]]
                           ELSE IF current_value # before.previous_value.s
                           THEN [before EXCEPT
                                    !.previous_value = [none |-> FALSE, s |-> Minus1]]
                           ELSE before

\* the cell printed for a column after its loop
ColumnCell(lines, index) ==
    LET after == ColumnLoop(lines, index)
    IN  IF after.num > 0
        THEN GeoMeanField(after.geo_mean, after.num)
        ELSE IF after.previous_value.none
        THEN TextField(Minus1)
        ELSE TextField(after.previous_value.s)

\* the columns whose cell is printed: all of them, or those before the first
\* column whose loop raises
ColumnsPrinted(summary) ==
    {index \in DOMAIN summary.params :
        \A earlier \in 1..index : ~ColumnLoop(summary.lines, earlier).raised}

\* print(..., file=out): fields reach the file after its last line, or on that
\* line when it has no newline yet
Printed(text, fields, ended, call) ==
    IF text # <<>> /\ ~text[Len(text)].ended
    THEN [text EXCEPT ![Len(text)] =
             [fields |-> @.fields \o fields, ended |-> ended, call |-> call]]
    ELSE Append(text, [fields |-> fields, ended |-> ended, call |-> call])

GmInit ==
    /\ out_file_exists = FALSE
    /\ out_file = <<>>
    /\ gm_calls = 0
    /\ gm_last = "none"
    /\ gm_summary = NoSummary
    /\ gm_cells = <<>>
    /\ SchedIdle /\ DrvIdle /\ ReqIdle /\ ChkIdle /\ JobIdle /\ FlowIdle /\ ParseIdle /\ CfgIdle /\ TblIdle

\* one invocation of calc_geomean
CalcGeomean ==
    /\ gm_calls < MaxInvocations
    /\ \E summary \in Summaries, run \in RunNumbers :
          LET first == ~out_file_exists
              params == summary.params
              headed == IF first
                        THEN <<[fields |-> <<TextField(<<"r", "u", "n">>)>> \o
                                           [n \in DOMAIN params |-> TextField(<<params[n]>>)] \o
                                           <<TextField(<<"d", "a", "t", "e">>),
                                             TextField(<<"r", "e", "v">>)>>,
                                ended |-> TRUE, call |-> gm_calls + 1]>>
                        ELSE out_file
              cells == [index \in 1..Cardinality(ColumnsPrinted(summary)) |->
                           ColumnCell(summary.lines, index)]
              complete == Len(cells) = Len(params)
              row == <<TextField(run)>> \o cells \o
                         (IF complete
                          THEN <<TextField(<<"t", "o", "d", "a", "y">>), TextField(<<"r", "e", "v">>)>>
                          ELSE <<>>)
          IN  /\ out_file' = Printed(headed, row, complete, gm_calls + 1)
              /\ gm_last' = IF complete THEN "returned" ELSE "raised"
              /\ gm_summary' = summary
              /\ gm_cells' = cells
    /\ out_file_exists' = TRUE
    /\ gm_calls' = gm_calls + 1
    /\ GmFrame

GmNext ==
    \/ CalcGeomean

SpecGm == GmInit /\ [][GmNext]_vars

\* the cells of a column of the summary the latest invocation read
ColumnValues(index) == [n \in DOMAIN gm_summary.lines |-> gm_summary.lines[n][index]]

PositiveNumeric(chars) == Float(chars).ok /\ (Float(chars).inf \/ Float(chars).num > 0)

\* the product of the positive numeric values of a sequence of cells
RECURSIVE PositiveProduct(_)
PositiveProduct(values) ==
    IF values = <<>>
    THEN [ok |-> TRUE, inf |-> FALSE, num |-> 1, den |-> 1]
    ELSE LET front == PositiveProduct(SubSeq(values, 1, Len(values) - 1))
             last == values[Len(values)]
         IN  IF PositiveNumeric(last) THEN Times(front, Float(last)) ELSE front

\* the cell the claim describes for a column
ClaimedCell(values) ==
    LET positive == {n \in DOMAIN values : PositiveNumeric(values[n])}
        texts == {values[n] : n \in {k \in DOMAIN values : ~Float(values[k]).ok}}
    IN  IF positive # {}
        THEN GeoMeanField(PositiveProduct(values), Cardinality(positive))
        ELSE IF Cardinality(texts) = 1
        THEN TextField(CHOOSE t \in texts : TRUE)
        ELSE TextField(Minus1)

\* C24 (as claimed): every column cell written by an invocation that returns is
\* the geometric mean of the positive numeric values of the column when there
\* are any, else the value shared by all its non-numeric entries, and "-1"
\* when these differ or there is none.
C24_AsClaimed ==
    gm_last = "returned" =>
        \A index \in DOMAIN gm_summary.params :
            gm_cells[index] = ClaimedCell(ColumnValues(index))

\* C25 (as claimed): after n >= 1 invocations starting from no file, the history
\* file holds one header line and then n complete data rows, the i-th written
\* by the i-th invocation.
C25_AsClaimed ==
    gm_calls >= 1 =>
        /\ Len(out_file) = gm_calls + 1
        /\ \A n \in DOMAIN out_file : out_file[n].ended
        /\ out_file[1].fields[1] = TextField(<<"r", "u", "n">>)
        /\ \A n \in 2..Len(out_file) :
               /\ out_file[n].call = n - 1
               /\ out_file[n].fields[1].text \in RunNumbers

\* the error of the faulty configuration file has been raised: the step that
\* reads the file has failed
ConfigErrorRaised ==
    /\ t_error = "fatal"
    /\ \/ config_fault = "task_config"
       \/ config_fault = "parse_patterns" /\ "parse" \in t_done
       \/ config_fault = "pass_requirements" /\ "check_golden" \in t_done

\* C26 (as claimed): when the error of a faulty configuration file is raised,
\* no job of the invocation has been started.
C26_AsClaimed == ConfigErrorRaised => "run" \notin t_done

\* ---------------------------------------------------------------------------
\* Task result tables: the jobs run, then parse_task and parse_files
\* ---------------------------------------------------------------------------

\* the configurations tried: one architecture, one or two circuits, the variant
\* lists, with or without a QoR parse file
TableConfigs ==
    {[archs |-> <<"k4">>, circuits |-> circuits, script_params_list_add |-> values,
      qor_parse_file |-> qor] :
        circuits \in {<<"c1">>, <<"c1", "c2">>}, values \in VariantLists, qor \in BOOLEAN}

\* the jobs create_jobs returns for a configuration, with the directory its
\* run command names last (-temp_dir) and its parse commands
TableJobs(config) ==
    LET values == config.script_params_list_add
        each == IF values = <<>> THEN 1 ELSE Len(values)
    IN  [k \in 1..(PairCount(config) * each) |->
            LET arch == ArchOf(config, ((k - 1) \div each) + 1)
                circuit == CircuitOf(config, ((k - 1) \div each) + 1)
                value == IF values = <<>> THEN <<>> ELSE values[((k - 1) % each) + 1]
                label == LoadScriptParam(value)
            IN  [arch |-> arch, circuit |-> circuit,
                 work_dir |-> <<arch, circuit, label>>,
                 temp_dir |-> <<arch, circuit,
                                IF values = <<>> THEN COMMON ELSE TempDirLabel(value)>>,
                 parse_command |-> ParseCommand(TRUE, arch, circuit, label, label),
                 qor_parse_command |->
                     ParseCommand(config.qor_parse_file, arch, circuit, label,
                                  COMMON)]]

\* a line of a result file: identity fields and the metric read from the flow output
NoRow == [present |-> FALSE, arch |-> "", circuit |-> "", script_params |-> <<>>,
          value |-> 0]

EmptyDir == [flow |-> 0, parse_results |-> NoRow, qor_results |-> NoRow]

\* the directories the job_list write to or parse
DirsOf(job_list) ==
    {job_list[k].temp_dir : k \in DOMAIN job_list} \cup {job_list[k].work_dir : k \in DOMAIN job_list}

\* parse_vtr_flow(command): the record for the results directory of the command
ParsedRow(command, dirs) ==
    [present |-> TRUE, arch |-> command.arch, circuit |-> command.circuit,
     script_params |-> command.script_params, value |-> dirs[command.dir].flow]

\* the loop of parse_task over the job_list: each job's records are written into
\* its work directory
RECURSIVE ParseJobs(_, _)
ParseJobs(job_list, dirs) ==
    IF job_list = <<>>
    THEN dirs
    ELSE LET before == ParseJobs(SubSeq(job_list, 1, Len(job_list) - 1), dirs)
             job == job_list[Len(job_list)]
         IN  [before EXCEPT ![job.work_dir] =
                 [@ EXCEPT !.parse_results = ParsedRow(job.parse_command, before),
                           !.qor_results = IF job.qor_parse_command.present
                                           THEN ParsedRow(job.qor_parse_command, before)
                                           ELSE @]]

\* parse_files: the data line of every job's result file, in the order of the job_list
ParseFiles(job_list, dirs, qor) ==
    [k \in DOMAIN job_list |->
        IF qor THEN dirs[job_list[k].work_dir].qor_results
        ELSE dirs[job_list[k].work_dir].parse_results]

TblInit ==
    /\ tb_pc = "run"
    /\ tb_config \in TableConfigs
    /\ tb_jobs = TableJobs(tb_config)
    /\ tb_pending = DOMAIN tb_jobs
    /\ tb_dirs = [dir \in DirsOf(tb_jobs) |-> EmptyDir]
    /\ tb_table = <<>>
    /\ tb_qor_table = <<>>
    /\ SchedIdle /\ DrvIdle /\ ReqIdle /\ ChkIdle /\ JobIdle /\ FlowIdle /\ ParseIdle
    /\ GmIdle /\ CfgIdle

\* a job of the pool completes: its flow has written its output into its
\* temp_dir; the output of job k is k in every execution
TbJobDone ==
    /\ tb_pc = "run"
    /\ \E k \in tb_pending :
          /\ tb_pending' = tb_pending \ {k}
          /\ tb_dirs' = [tb_dirs EXCEPT ![tb_jobs[k].temp_dir].flow = k]
    /\ UNCHANGED <<tb_pc, tb_config, tb_jobs, tb_table, tb_qor_table>>
    /\ TblFrame

\* run_parallel has returned: parse_task parses every job and parse_files
\* writes the tables of the task
TbParseTask ==
    /\ tb_pc = "run"
    /\ tb_pending = {}
    /\ LET parsed == ParseJobs(tb_jobs, tb_dirs)
       IN  /\ tb_dirs' = parsed
           /\ tb_table' = ParseFiles(tb_jobs, parsed, FALSE)
           /\ tb_qor_table' = IF tb_config.qor_parse_file
                              THEN ParseFiles(tb_jobs, parsed, TRUE)
                              ELSE <<>>
    /\ tb_pc' = "done"
    /\ UNCHANGED <<tb_config, tb_jobs, tb_pending>>
    /\ TblFrame

TblNext ==
    \/ TbJobDone
    \/ TbParseTask

SpecTbl == TblInit /\ [][TblNext]_vars

\* the directories after an execution in which the jobs complete in creation order
RECURSIVE InCreationOrder(_, _)
InCreationOrder(job_list, n) ==
    IF n = 0
    THEN [dir \in DirsOf(job_list) |-> EmptyDir]
    ELSE [InCreationOrder(job_list, n - 1) EXCEPT ![job_list[n].temp_dir].flow = n]

\* the table parse_task writes after that execution
TableInCreationOrder(qor) ==
    ParseFiles(tb_jobs, ParseJobs(tb_jobs, InCreationOrder(tb_jobs, Len(tb_jobs))), qor)

\* the table has one row per job, in creation order, each with its job's own key
OwnKeys(table) ==
    /\ DOMAIN table = DOMAIN tb_jobs
    /\ \A k \in DOMAIN tb_jobs :
          /\ table[k].present
          /\ table[k].arch = tb_jobs[k].arch
          /\ table[k].circuit = tb_jobs[k].circuit
          /\ table[k].script_params = tb_jobs[k].work_dir[3]

C27_SameTable ==
    tb_pc = "done" =>
        /\ tb_table = TableInCreationOrder(FALSE)
        /\ tb_config.qor_parse_file => tb_qor_table = TableInCreationOrder(TRUE)

C27_PrimaryKeys == tb_pc = "done" => OwnKeys(tb_table)

C27_QorKeys == (tb_pc = "done" /\ tb_config.qor_parse_file) => OwnKeys(tb_qor_table)

\* C27 (as claimed): whatever the order in which the jobs completed, the tables
\* parse_task and parse_files write are the ones written when the jobs complete
\* in creation order, and they hold one row per job, in creation order, each
\* with the job's own (architecture, circuit, variant) key.
C27_AsClaimed ==
    /\ C27_SameTable
    /\ C27_PrimaryKeys
    /\ C27_QorKeys
====
